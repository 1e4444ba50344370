------------------------- MODULE Decoder_refinement -------------------------
(***************************************************************************)
(* The decoder implements InstructionStream: however many steps a decode   *)
(* takes and wherever it is cut off, its caller sees one atomic call whose *)
(* outcome is a function of the buffer and the cursor.                     *)
(*                                                                         *)
(* The argument is Located below: in each phase the cursor stands where    *)
(* the extent of the instruction, as the buffer declares it, says that     *)
(* phase begins.                                                           *)
(***************************************************************************)
EXTENDS Decoder_proofs

-----------------------------------------------------------------------------
(* The operators of the declared extent.                                   *)

\* The prefix count is the one number that ends the prefixes.
LEMMA PrefixesAre ==
  ASSUME NEW b \in Seq(Byte), NEW s \in Nat, NEW k \in Nat, s + k <= Len(b),
         \A i \in 1..k : b[s + i] \in PrefixFlags,
         s + k + 1 <= Len(b) => b[s + k + 1] \notin PrefixFlags
  PROVE  OpcodeAt(b, s) = s + k + 1
<1> DEFINE P(n) == /\ \A i \in 1..n : b[s + i] \in PrefixFlags
                   /\ s + n + 1 <= Len(b) => b[s + n + 1] \notin PrefixFlags
<1>1. k \in 0..(Len(b) - s) /\ P(k)
  OBVIOUS
<1>2. ASSUME NEW n \in 0..(Len(b) - s), P(n)
      PROVE  n = k
  <2>1. CASE n < k
    <3>1. n + 1 \in 1..k /\ s + n + 1 <= Len(b)
      BY <2>1
    <3>2. b[s + (n + 1)] \in PrefixFlags /\ b[s + n + 1] \notin PrefixFlags
      BY <1>2, <3>1
    <3>3. s + (n + 1) = s + n + 1
      OBVIOUS
    <3> QED
      BY <3>2, <3>3
  <2>2. CASE k < n
    <3>1. k + 1 \in 1..n /\ s + k + 1 <= Len(b)
      BY <2>2
    <3>2. b[s + (k + 1)] \in PrefixFlags /\ b[s + k + 1] \notin PrefixFlags
      BY <1>2, <3>1
    <3>3. s + (k + 1) = s + k + 1
      OBVIOUS
    <3> QED
      BY <3>2, <3>3
  <2> QED
    BY <2>1, <2>2
<1> HIDE DEF P
<1>3. (CHOOSE n \in 0..(Len(b) - s) : P(n)) = k
  BY <1>1, <1>2
<1>4. PrefixesAt(b, s) = k
  BY <1>3 DEF PrefixesAt, P
<1> QED
  BY <1>4 DEF OpcodeAt

\* The parts of a declared extent are lengths, and its last row is a row.
LEMMA ExtentIsTyped ==
  ASSUME NEW b \in Seq(Byte), NEW o \in Nat \ {0}, o <= Len(b),
         WantsModRm(b[o]) => o + 1 <= Len(b)
  PROVE  /\ ModRmLength(b, o) \in {0, 1, 2, 3}
         /\ LastRow(b, o) \in RowIndex
<1>1. b[o] \in Byte /\ b[o] \in RowIndex
  BY ElementOfSeq, ByteRange, RowRange
<1>2. CASE WantsModRm(b[o])
  <2>1. b[o + 1] \in Byte
    BY <1>2, ElementOfSeq
  <2>2. DisplacementWidth(b[o + 1]) \in {0, 1, 2} /\ GroupRow(b[o], b[o + 1]) \in RowIndex
    BY <1>1, <2>1, ModRmFields, GroupRowInTable
  <2> QED
    BY <1>2, <2>2 DEF ModRmLength, LastRow
<1>3. CASE ~WantsModRm(b[o])
  BY <1>1, <1>3 DEF ModRmLength, LastRow
<1> QED
  BY <1>2, <1>3

\* The two operands of a row take a natural number of bytes each.
LEMMA OperandsLengthIsTyped ==
  ASSUME NEW i \in RowIndex
  PROVE  /\ ImmediateWidth(DECODE[i].operands[1]) \in Nat
         /\ ImmediateWidth(DECODE[i].operands[2]) \in Nat
         /\ OperandsLength(i) = ImmediateWidth(DECODE[i].operands[1])
                                + ImmediateWidth(DECODE[i].operands[2])
<1>1. /\ DECODE[i].operands[1] \in OperandTemplate
      /\ DECODE[i].operands[2] \in OperandTemplate
  BY RowsAreTyped
<1>2. /\ ImmediateWidth(DECODE[i].operands[1]) \in {0, 1, 2, 4}
      /\ ImmediateWidth(DECODE[i].operands[2]) \in {0, 1, 2, 4}
  BY <1>1, WidthIsTyped
<1> QED
  BY <1>2 DEF OperandsLength

\* A declared extent, and its absence, from where the opcode stands.
LEMMA ExtentIs ==
  ASSUME NEW b, NEW s, NEW o, o = OpcodeAt(b, s), o <= Len(b),
         WantsModRm(b[o]) => o + 1 <= Len(b)
  PROVE  LET last == o + ModRmLength(b, o) + OperandsLength(LastRow(b, o))
         IN /\ last <= Len(b) => DeclaredExtent(b, s) = last - s
            /\ ~(last <= Len(b)) => DeclaredExtent(b, s) = 0
BY DEF DeclaredExtent

\* An input that stops before the opcode, or before the ModRM byte it wants, has no extent.
LEMMA NoExtent ==
  ASSUME NEW b, NEW s,
         \/ ~(OpcodeAt(b, s) <= Len(b))
         \/ WantsModRm(b[OpcodeAt(b, s)]) /\ ~(OpcodeAt(b, s) + 1 <= Len(b))
  PROVE  DeclaredExtent(b, s) = 0
BY DEF DeclaredExtent

-----------------------------------------------------------------------------
(* Where each phase begins.                                                *)

Opcode == OpcodeAt(buf, start)

PrefixesSoFar ==
  pc = "opcode" => \A i \in 1..(position - start) : buf[start + i] \in PrefixFlags

OpcodeIsBehind ==
  pc \in {"modrm", "operand1", "operand2"} =>
    /\ Opcode \in Nat /\ start < Opcode /\ Opcode <= position
    /\ WantsModRm(buf[Opcode]) /\ pc # "modrm" => Opcode + 1 <= position

ModRmIsNext ==
  pc = "modrm" => position = Opcode /\ row = buf[Opcode] /\ WantsModRm(buf[Opcode])

OperandIsNext ==
  pc \in {"operand1", "operand2"} =>
    /\ row = LastRow(buf, Opcode)
    /\ position = Opcode + ModRmLength(buf, Opcode)
                  + (IF pc = "operand2" THEN ImmediateWidth(Template(1)) ELSE 0)

Located ==
  /\ pc # "idle" => cpu = "Intel808x"
  /\ PrefixesSoFar
  /\ OpcodeIsBehind
  /\ ModRmIsNext
  /\ OperandIsNext

\* Between decodes there is no phase to locate.
LEMMA IdleIsLocated == pc = "idle" => Located
BY DEF Located, PrefixesSoFar, OpcodeIsBehind, ModRmIsNext, OperandIsNext

\* A decode that has just been entered has seen no byte.
LEMMA CallLocates == TypeOK /\ Call => Located'
<1> SUFFICES ASSUME TypeOK, Call PROVE Located'
  OBVIOUS
<1>1. CASE pc' = "idle"
  BY <1>1 DEF Located, PrefixesSoFar, OpcodeIsBehind, ModRmIsNext, OperandIsNext
<1>2. CASE pc' # "idle"
  <2>1. pc' = "opcode" /\ cpu' = "Intel808x" /\ start' = position' /\ position' = position
    BY <1>2 DEF Call, SetPosition, Rewind, SetOptions, DecodeNext, Answer, Return
  <2>2. 1..(position' - start') = {}
    BY <2>1, Cursor
  <2> QED
    BY <2>1, <2>2 DEF Located, PrefixesSoFar, OpcodeIsBehind, ModRmIsNext, OperandIsNext
<1> QED
  BY <1>1, <1>2

\* A turn of the prefix loop passes a prefix, or lands behind the opcode.
LEMMA PrefixOrOpcodeLocates ==
  TypeOK /\ Bookkeeping /\ Located /\ ReadPrefixOrOpcode => Located'
<1> SUFFICES ASSUME TypeOK, Bookkeeping, Located, ReadPrefixOrOpcode PROVE Located'
  OBVIOUS
<1>1. /\ pc = "opcode" /\ cpu = "Intel808x" /\ CanRead(1) /\ position' = position + 1
      /\ buf' = buf /\ start' = start /\ cpu' = cpu
  BY DEF ReadPrefixOrOpcode, Located
<1>2. /\ buf \in Seq(Byte) /\ start \in Nat /\ position \in Nat
      /\ start <= position /\ position + 1 <= Len(buf)
  BY <1>1, Cursor DEF CanRead, Bookkeeping
<1>3. \A i \in 1..(position - start) : buf[start + i] \in PrefixFlags
  BY <1>1 DEF Located, PrefixesSoFar
<1> DEFINE b == buf[position + 1]
<1>4. CASE b \in PrefixFlags
  <2>1. pc' = "opcode"
    BY <1>1, <1>4 DEF ReadPrefixOrOpcode
  <2>2. ASSUME NEW i \in 1..(position' - start')
        PROVE  buf'[start' + i] \in PrefixFlags
    <3>1. CASE i <= position - start
      <4>1. i \in 1..(position - start)
        BY <1>1, <1>2, <3>1
      <4> QED
        BY <1>1, <1>3, <4>1
    <3>2. CASE ~(i <= position - start)
      <4>1. start + i = position + 1
        BY <1>1, <1>2, <3>2
      <4> QED
        BY <1>1, <1>4, <4>1
    <3> QED
      BY <3>1, <3>2
  <2> QED
    BY <1>1, <2>1, <2>2 DEF Located, PrefixesSoFar, OpcodeIsBehind, ModRmIsNext, OperandIsNext
<1>5. CASE b \notin PrefixFlags
  <2>1. pc' = (IF WantsModRm(b) THEN "modrm" ELSE "operand1") /\ row' = b
    BY <1>5 DEF ReadPrefixOrOpcode
  <2>2. Opcode = position + 1
    <3> DEFINE k == position - start
    <3>1. k \in Nat /\ start + k = position /\ start + k <= Len(buf)
      BY <1>2
    <3>2. \A i \in 1..k : buf[start + i] \in PrefixFlags
      BY <1>3
    <3>3. start + k + 1 <= Len(buf) => buf[start + k + 1] \notin PrefixFlags
      BY <1>5, <3>1
    <3> HIDE DEF k
    <3>4. OpcodeAt(buf, start) = start + k + 1
      BY <1>2, <3>1, <3>2, <3>3, PrefixesAre
    <3> QED
      BY <3>1, <3>4 DEF Opcode
  <2>3. Opcode' = Opcode /\ position' = Opcode /\ buf'[Opcode'] = b
    BY <1>1, <2>2 DEF Opcode
  <2>4. Opcode' \in Nat /\ start' < Opcode' /\ Opcode' <= position'
    BY <1>1, <1>2, <2>2, <2>3
  <2>5. CASE WantsModRm(b)
    BY <1>1, <2>1, <2>3, <2>4, <2>5
    DEF Located, PrefixesSoFar, OpcodeIsBehind, ModRmIsNext, OperandIsNext
  <2>6. CASE ~WantsModRm(b)
    <3>1. pc' = "operand1" /\ LastRow(buf', Opcode') = b /\ ModRmLength(buf', Opcode') = 0
      BY <2>1, <2>3, <2>6 DEF LastRow, ModRmLength
    <3>2. position' = Opcode' + 0 + 0
      BY <2>3, <2>4
    <3> QED
      BY <1>1, <2>1, <2>3, <2>4, <2>6, <3>1, <3>2
      DEF Located, PrefixesSoFar, OpcodeIsBehind, ModRmIsNext, OperandIsNext
  <2> QED
    BY <2>5, <2>6
<1> QED
  BY <1>4, <1>5

\* Reading the ModRM byte lands where the first operand begins.
LEMMA ModRmLocates == TypeOK /\ Located /\ ReadModRm => Located'
<1> SUFFICES ASSUME TypeOK, Located, ReadModRm PROVE Located'
  OBVIOUS
<1>1. /\ pc = "modrm" /\ pc' = "operand1"
      /\ row' = GroupRow(row, buf[position + 1])
  BY DEF ReadModRm
<1>2. /\ position' = position + ModRmBytes /\ ModRmBytes \in {1, 2, 3}
      /\ buf' = buf /\ start' = start /\ cpu' = cpu
  BY ModRmStep
<1>3. /\ cpu = "Intel808x" /\ Opcode \in Nat /\ start < Opcode
      /\ position = Opcode /\ row = buf[Opcode] /\ WantsModRm(buf[Opcode])
  BY <1>1 DEF Located, OpcodeIsBehind, ModRmIsNext
<1>4. Opcode' = Opcode
  BY <1>2 DEF Opcode
<1>5. ModRmLength(buf, Opcode) = ModRmBytes
  BY <1>3 DEF ModRmLength, ModRmBytes
<1>6. row' = LastRow(buf, Opcode)
  BY <1>1, <1>3 DEF LastRow
<1>7. /\ position' = Opcode + ModRmLength(buf, Opcode) + 0
      /\ start' < Opcode' /\ Opcode' <= position' /\ Opcode' + 1 <= position'
  BY <1>2, <1>3, <1>4, <1>5, Cursor
<1> QED
  BY <1>1, <1>2, <1>3, <1>4, <1>6, <1>7
  DEF Located, PrefixesSoFar, OpcodeIsBehind, ModRmIsNext, OperandIsNext

\* Resolving the first operand lands where the second begins.
LEMMA Operand1Locates == TypeOK /\ Located /\ ResolveOperand1 => Located'
<1> SUFFICES ASSUME TypeOK, Located, ResolveOperand1 PROVE Located'
  OBVIOUS
<1>1. CASE pc' = "idle"
  BY <1>1 DEF Located, PrefixesSoFar, OpcodeIsBehind, ModRmIsNext, OperandIsNext
<1>2. CASE pc' # "idle"
  <2> DEFINE n == ImmediateWidth(Template(1))
  <2>1. /\ pc = "operand1" /\ pc' = "operand2" /\ CanRead(n)
        /\ position' = position + n
        /\ UNCHANGED << buf, cpu, start, row >>
    BY <1>2 DEF ResolveOperand1, ModRmIsNone, Return, Template
  <2>2. Opcode' = Opcode /\ Template(1)' = Template(1) /\ n \in Nat
    BY <2>1, OperandStep DEF Opcode, Template
  <2>3. /\ cpu = "Intel808x" /\ Opcode \in Nat /\ start < Opcode /\ Opcode <= position
        /\ WantsModRm(buf[Opcode]) => Opcode + 1 <= position
        /\ row = LastRow(buf, Opcode)
        /\ position = Opcode + ModRmLength(buf, Opcode) + 0
    BY <2>1 DEF Located, OpcodeIsBehind, OperandIsNext
  <2>4. ModRmLength(buf, Opcode) \in {0, 1, 2, 3}
    <3>1. Opcode <= Len(buf) /\ (WantsModRm(buf[Opcode]) => Opcode + 1 <= Len(buf))
      BY <2>3, Cursor
    <3>2. Opcode \in Nat \ {0}
      BY <2>3, Cursor
    <3> QED
      BY <3>1, <3>2, Cursor, ExtentIsTyped
  <2>5. position' = Opcode + ModRmLength(buf, Opcode) + n
    BY <2>1, <2>2, <2>3, <2>4
  <2>6. Opcode <= position' /\ (WantsModRm(buf[Opcode]) => Opcode + 1 <= position')
    BY <2>1, <2>2, <2>3, Cursor
  <2> QED
    BY <2>1, <2>2, <2>3, <2>5, <2>6
    DEF Located, PrefixesSoFar, OpcodeIsBehind, ModRmIsNext, OperandIsNext
<1> QED
  BY <1>1, <1>2

\* The steps that end a decode leave no phase to locate.
LEMMA ReturnLocates == ResolveOperand2 \/ RunsOutInPhase => Located'
BY DEF ResolveOperand2, RunsOutInPhase, RunsOut, ModRmIsNone, Return,
       Located, PrefixesSoFar, OpcodeIsBehind, ModRmIsNext, OperandIsNext

\* A step that changes nothing moves no phase.
LEMMA StutterLocates == Located /\ UNCHANGED vars => Located'
BY DEF Located, PrefixesSoFar, OpcodeIsBehind, ModRmIsNext, OperandIsNext, Opcode, Template,
       vars, local

\* In every phase the cursor is where the declared extent says it begins.
THEOREM LocatedHolds == Spec => []Located
<1>1. Init => Located
  BY IdleIsLocated DEF Init
<1>2. TypeOK /\ Bookkeeping /\ Located /\ [Next]_vars => Located'
  BY CallLocates, PrefixOrOpcodeLocates, ModRmLocates, Operand1Locates, ReturnLocates,
     StutterLocates, Zenon DEF Next, DecodeStep
<1> QED
  BY <1>1, <1>2, TypeCorrect, BookkeepingHolds, PTL DEF Spec

-----------------------------------------------------------------------------
(* What each return says about the declared extent.                        *)

\* A decode that ran out after it had started was of an instruction that the
\* buffer does not hold.
LEMMA CutOffHasNoExtent ==
  ASSUME TypeOK, Bookkeeping, Located, RunsOutInPhase
  PROVE  DeclaredExtent(buf, start) = 0
<1>1. /\ buf \in Seq(Byte) /\ Len(buf) \in Nat /\ start \in Nat /\ position \in Nat
      /\ start <= position /\ position <= Len(buf)
  BY Cursor DEF Bookkeeping
<1>2. CASE pc = "opcode" /\ RunsOut(1)
  <2>1. position = Len(buf)
    BY <1>1, <1>2 DEF RunsOut, CanRead
  <2> DEFINE k == position - start
  <2>2. k \in Nat /\ start + k = Len(buf) /\ start + k <= Len(buf)
    BY <1>1, <2>1
  <2>3. /\ \A i \in 1..k : buf[start + i] \in PrefixFlags
        /\ start + k + 1 <= Len(buf) => buf[start + k + 1] \notin PrefixFlags
    BY <1>1, <1>2, <2>2 DEF Located, PrefixesSoFar
  <2> HIDE DEF k
  <2>4. OpcodeAt(buf, start) = start + k + 1
    BY <1>1, <2>2, <2>3, PrefixesAre
  <2>5. ~(OpcodeAt(buf, start) <= Len(buf))
    BY <1>1, <2>2, <2>4
  <2> QED
    BY <2>5, NoExtent
<1>3. ASSUME pc \in {"modrm", "operand1", "operand2"}
      PROVE  /\ Opcode \in Nat \ {0} /\ Opcode <= Len(buf) /\ Opcode <= position
             /\ WantsModRm(buf[Opcode]) /\ pc # "modrm" => Opcode + 1 <= Len(buf)
  <2>1. /\ Opcode \in Nat /\ start < Opcode /\ Opcode <= position
        /\ WantsModRm(buf[Opcode]) /\ pc # "modrm" => Opcode + 1 <= position
    BY <1>3 DEF Located, OpcodeIsBehind
  <2> QED
    BY <1>1, <2>1
<1>4. ASSUME pc \in {"modrm", "operand1", "operand2"},
             WantsModRm(buf[Opcode]) => Opcode + 1 <= Len(buf),
             ~(Opcode + ModRmLength(buf, Opcode)
               + OperandsLength(LastRow(buf, Opcode)) <= Len(buf))
      PROVE  DeclaredExtent(buf, start) = 0
  BY <1>3, <1>4, ExtentIs DEF Opcode
<1>5. CASE pc = "modrm" /\ RunsOut(IF CanRead(1) THEN 1 + DisplacementWidth(buf[position + 1]) ELSE 1)
  <2>1. position = Opcode /\ WantsModRm(buf[Opcode])
    BY <1>5 DEF Located, ModRmIsNext
  <2>2. CASE ~CanRead(1)
    <3>1. ~(Opcode + 1 <= Len(buf))
      BY <2>1, <2>2 DEF CanRead
    <3> QED
      BY <2>1, <3>1, NoExtent DEF Opcode
  <2>3. CASE CanRead(1)
    <3>1. Opcode + 1 <= Len(buf)
      BY <2>1, <2>3 DEF CanRead
    <3>2. /\ ModRmLength(buf, Opcode) = 1 + DisplacementWidth(buf[position + 1])
          /\ ~CanRead(ModRmLength(buf, Opcode))
      BY <1>5, <2>1, <2>3 DEF RunsOut, ModRmLength
    <3>3. ModRmLength(buf, Opcode) \in {0, 1, 2, 3} /\ LastRow(buf, Opcode) \in RowIndex
      BY <1>1, <1>3, <1>5, <3>1, ExtentIsTyped
    <3>4. OperandsLength(LastRow(buf, Opcode)) \in Nat
      BY <3>3, OperandsLengthIsTyped
    <3>5. ~(Opcode + ModRmLength(buf, Opcode) + OperandsLength(LastRow(buf, Opcode)) <= Len(buf))
      BY <1>1, <2>1, <3>2, <3>3, <3>4 DEF CanRead
    <3> QED
      BY <1>4, <1>5, <3>1, <3>5
  <2> QED
    BY <2>2, <2>3
<1>6. ASSUME pc \in {"operand1", "operand2"}
      PROVE  /\ row \in RowIndex /\ row = LastRow(buf, Opcode)
             /\ ModRmLength(buf, Opcode) \in {0, 1, 2, 3}
             /\ ImmediateWidth(Template(1)) \in Nat /\ ImmediateWidth(Template(2)) \in Nat
             /\ OperandsLength(LastRow(buf, Opcode)) =
                  ImmediateWidth(Template(1)) + ImmediateWidth(Template(2))
             /\ position = Opcode + ModRmLength(buf, Opcode)
                           + (IF pc = "operand2" THEN ImmediateWidth(Template(1)) ELSE 0)
  <2>1. /\ row = LastRow(buf, Opcode)
        /\ position = Opcode + ModRmLength(buf, Opcode)
                      + (IF pc = "operand2" THEN ImmediateWidth(Template(1)) ELSE 0)
    BY <1>6 DEF Located, OperandIsNext
  <2>2. ModRmLength(buf, Opcode) \in {0, 1, 2, 3} /\ LastRow(buf, Opcode) \in RowIndex
    BY <1>1, <1>3, <1>6, ExtentIsTyped
  <2> QED
    BY <2>1, <2>2, OperandsLengthIsTyped DEF Template
<1>7. CASE pc = "operand1" /\ RunsOut(ImmediateWidth(DECODE[row].operands[1]))
  <2>1. ~(position + ImmediateWidth(Template(1)) <= Len(buf))
    BY <1>7 DEF RunsOut, CanRead, Template
  <2>2. ~(Opcode + ModRmLength(buf, Opcode) + OperandsLength(LastRow(buf, Opcode)) <= Len(buf))
    BY <1>1, <1>3, <1>6, <1>7, <2>1
  <2> QED
    BY <1>3, <1>4, <1>7, <2>2
<1>8. CASE pc = "operand2" /\ RunsOut(ImmediateWidth(DECODE[row].operands[2]))
  <2>1. ~(position + ImmediateWidth(Template(2)) <= Len(buf))
    BY <1>8 DEF RunsOut, CanRead, Template
  <2>2. ~(Opcode + ModRmLength(buf, Opcode) + OperandsLength(LastRow(buf, Opcode)) <= Len(buf))
    BY <1>1, <1>3, <1>6, <1>8, <2>1
  <2> QED
    BY <1>3, <1>4, <1>8, <2>2
<1> QED
  BY <1>2, <1>5, <1>7, <1>8 DEF RunsOutInPhase

\* A decode that returns has passed the declared extent, and returns it.
LEMMA ReturnedIsExtent ==
  ASSUME TypeOK, Bookkeeping, Located, Bookkeeping', ResolveOperand2, ~LacksModRm(Template(2))
  PROVE  LET n == DeclaredExtent(buf, start)
         IN /\ n > 0 /\ start < Len(buf)
            /\ position' = start + n
            /\ outcome' = "instruction"
            /\ result'.instruction_bytes = SubSeq(buf, start + 1, start + n)
<1> DEFINE w == ImmediateWidth(Template(2))
<1>1. /\ pc = "operand2" /\ CanRead(w) /\ position' = position + w
      /\ outcome' = "instruction" /\ buf' = buf /\ start' = start
  BY DEF ResolveOperand2, Return, Template
<1>2. /\ buf \in Seq(Byte) /\ Len(buf) \in Nat /\ start \in Nat /\ position \in Nat
      /\ position <= Len(buf)
  BY Cursor
<1>3. /\ Opcode \in Nat \ {0} /\ start < Opcode /\ Opcode <= position /\ Opcode <= Len(buf)
      /\ WantsModRm(buf[Opcode]) => Opcode + 1 <= Len(buf)
      /\ row = LastRow(buf, Opcode)
      /\ position = Opcode + ModRmLength(buf, Opcode) + ImmediateWidth(Template(1))
  <2>1. /\ Opcode \in Nat /\ start < Opcode /\ Opcode <= position
        /\ WantsModRm(buf[Opcode]) => Opcode + 1 <= position
        /\ row = LastRow(buf, Opcode)
        /\ position = Opcode + ModRmLength(buf, Opcode) + ImmediateWidth(Template(1))
    BY <1>1 DEF Located, OpcodeIsBehind, OperandIsNext
  <2> QED
    BY <1>2, <2>1
<1>4. ModRmLength(buf, Opcode) \in {0, 1, 2, 3} /\ LastRow(buf, Opcode) \in RowIndex
  BY <1>2, <1>3, ExtentIsTyped
<1>5. /\ ImmediateWidth(Template(1)) \in Nat /\ w \in Nat
      /\ OperandsLength(LastRow(buf, Opcode)) = ImmediateWidth(Template(1)) + w
  BY <1>3, <1>4, OperandsLengthIsTyped DEF Template
<1> HIDE DEF w
<1> DEFINE last == Opcode + ModRmLength(buf, Opcode) + OperandsLength(LastRow(buf, Opcode))
<1>6. last = position' /\ last <= Len(buf) /\ last \in Nat /\ start < last
  <2> DEFINE m  == ModRmLength(buf, Opcode)
             w1 == ImmediateWidth(Template(1))
             ol == OperandsLength(LastRow(buf, Opcode))
             o  == Opcode
  <2>1. m \in Nat /\ w1 \in Nat /\ ol = w1 + w /\ w \in Nat
    BY <1>4, <1>5
  <2>2. o \in Nat /\ start < o /\ position = o + m + w1 /\ position' = position + w
    BY <1>1, <1>3
  <2>3. position + w <= Len(buf)
    BY <1>1 DEF CanRead
  <2>4. last = o + m + ol
    OBVIOUS
  <2> HIDE DEF m, w1, ol, o, last
  <2>5. last = position + w
    BY <2>1, <2>2, <2>4
  <2>6. last \in Nat /\ start < last
    BY <1>2, <2>1, <2>2, <2>4
  <2> QED
    BY <2>2, <2>3, <2>5, <2>6
<1>7. DeclaredExtent(buf, start) = last - start
  BY <1>3, <1>6, ExtentIs DEF Opcode
<1> HIDE DEF last
<1>8. IsSlice(result'.instruction_bytes, buf, start, last)
  BY <1>1, <1>6 DEF Bookkeeping, RecordIsSlice
<1>9. result'.instruction_bytes = SubSeq(buf, start + 1, last)
  <2>1. last \in Nat /\ start <= last /\ last <= Len(buf)
    BY <1>2, <1>6
  <2>2. IsSlice(SubSeq(buf, start + 1, last), buf, start, last)
    BY <1>2, <2>1, PassedIsSlice
  <2> QED
    BY <1>2, <1>8, <2>2, SliceIsUnique, Zenon
<1>10. start + DeclaredExtent(buf, start) = last /\ DeclaredExtent(buf, start) > 0
  <2> DEFINE n == DeclaredExtent(buf, start)
  <2>1. n = last - start
    BY <1>7
  <2>2. last \in Nat /\ start < last
    BY <1>6
  <2> HIDE DEF n
  <2>3. start + n = last /\ n > 0
    BY <1>2, <2>1, <2>2
  <2> QED
    BY <2>3 DEF n
<1>11. start < Len(buf)
  BY <1>2, <1>6
<1> QED
  BY <1>1, <1>6, <1>9, <1>10, <1>11

-----------------------------------------------------------------------------
(* The refinement.                                                         *)

\* A new decoder is an initial state of the stream.
LEMMA InitRefines == Init => Stream!Init
BY DEF Init, Stream!Init, Blank

\* Every call made between decodes is a step of the stream: a seek, a refusal, a change of options
\* or the entry of a decode.
LEMMA CallRefines == TypeOK /\ Bookkeeping /\ Call => Stream!Next
<1> SUFFICES ASSUME TypeOK, Bookkeeping, Call PROVE Stream!Next
  OBVIOUS
<1>1. ASSUME NEW p \in -1..(Len(buf) + 1), SetPosition(p)
      PROVE  Stream!Next
  <2>1. CASE p \in 0..Len(buf)
    <3>1. Stream!Seek(p)
      BY <1>1, <2>1 DEF SetPosition, Answer, Return, Blank, Stream!Seek, Stream!Return
    <3> QED
      BY <2>1, <3>1 DEF Stream!Next
  <2>2. CASE p \notin 0..Len(buf)
    <3>1. Stream!SeekOutside
      BY <1>1, <2>2 DEF SetPosition, Answer, Return, Blank, Stream!SeekOutside, Stream!Return
    <3> QED
      BY <3>1 DEF Stream!Next
  <2> QED
    BY <2>1, <2>2
<1>2. CASE Rewind
  <2>1. Stream!Seek(0) /\ 0 \in 0..Len(buf)
    BY <1>2, Cursor DEF Rewind, Answer, Return, Blank, Stream!Seek, Stream!Return
  <2> QED
    BY <2>1 DEF Stream!Next
<1>3. ASSUME NEW c \in CpuType, SetOptions(c)
      PROVE  Stream!Next
  <2>1. Stream!SetOptions
    BY <1>3 DEF SetOptions, Answer, Return, Blank, Stream!SetOptions, Stream!Return
  <2> QED
    BY <2>1 DEF Stream!Next
<1>4. ASSUME NEW v \in {"decode_next", "__next__"}, DecodeNext(v)
      PROVE  Stream!Next
  <2>1. CASE cpu = "Intel808x"
    <3>1. Stream!Enter
      BY <1>4, <2>1 DEF DecodeNext, Blank, Stream!Enter, Stream!Return
    <3> QED
      BY <3>1 DEF Stream!Next
  <2>2. CASE cpu # "Intel808x"
    <3>1. Stream!Refuse
      BY <1>4, <2>2 DEF DecodeNext, Return, Blank, Stream!Refuse, Stream!Return
    <3> QED
      BY <3>1 DEF Stream!Next
  <2> QED
    BY <2>1, <2>2
<1> QED
  BY <1>1, <1>2, <1>3, <1>4 DEF Call

\* A decode under way is invisible.
LEMMA ProgressStutters ==
  ReadPrefixOrOpcode \/ ReadModRm \/ (ResolveOperand1 /\ ~LacksModRm(Template(1)))
    => UNCHANGED Stream!streamVars
BY DEF ReadPrefixOrOpcode, ReadModRm, ResolveOperand1, Template, Stream!streamVars

\* The return of an instruction is the one step Decode of the stream.
LEMMA ReturnRefines ==
  ASSUME TypeOK, Bookkeeping, Located, Bookkeeping', ResolveOperand2, ~LacksModRm(Template(2))
  PROVE  Stream!Next
<1>1. pc = "operand2" /\ pc' = "idle" /\ cpu = "Intel808x" /\ buf' = buf /\ cpu' = cpu
  BY DEF ResolveOperand2, Return, Template, Located
<1>2. Stream!Decode
  BY <1>1, ReturnedIsExtent DEF Stream!Decode, Stream!Return
<1> QED
  BY <1>2 DEF Stream!Next

\* Running out of input is AtEnd when nothing was read and CutOff when something was.
LEMMA RunsOutRefines ==
  ASSUME TypeOK, Bookkeeping, Located, RunsOutInPhase
  PROVE  Stream!Next
<1>1. /\ pc # "idle" /\ pc' = "idle" /\ cpu = "Intel808x" /\ buf' = buf /\ cpu' = cpu
      /\ position' = Len(buf) /\ outcome' = EndOfInput /\ result' = Blank
  BY RunningOut DEF Return, Located
<1>2. start \in Nat /\ start <= Len(buf) /\ Len(buf) \in Nat
  BY Cursor
<1>3. CASE start = Len(buf)
  <2>1. Stream!AtEnd
    BY <1>1, <1>3 DEF EndOfInput, Blank, Stream!AtEnd
  <2> QED
    BY <2>1 DEF Stream!Next
<1>4. CASE start # Len(buf)
  <2>1. DeclaredExtent(buf, start) = 0 /\ start < Len(buf)
    BY <1>2, <1>4, CutOffHasNoExtent
  <2>2. Stream!CutOff
    BY <1>1, <1>4, <2>1 DEF EndOfInput, Blank, Stream!CutOff, Stream!Return
  <2> QED
    BY <2>2 DEF Stream!Next
<1> QED
  BY <1>3, <1>4

\* On a consistent table the decoder implements the stream of instructions:
\* whatever the buffers, every call is one atomic step of InstructionStream
\* whose outcome the buffer and the cursor determine.
THEOREM DecoderImplementsStream ==
  ASSUME TableIsConsistent
  PROVE  Spec => ImplementsStream
<1>1. Init => Stream!Init
  BY InitRefines
<1>2. ASSUME TypeOK, Bookkeeping, Located, Bookkeeping',
             OperandsHaveTheirModRm', [Next]_vars
      PROVE  [Stream!Next]_(Stream!streamVars)
  <2>1. CASE Call
    BY <1>2, <2>1, CallRefines
  <2>2. CASE ReadPrefixOrOpcode \/ ReadModRm
    BY <2>2, ProgressStutters
  <2>3. CASE ResolveOperand1
    <3>1. ~LacksModRm(Template(1))
      BY <1>2, <2>3 DEF ResolveOperand1, ModRmIsNone, Return, Template, OperandsHaveTheirModRm
    <3> QED
      BY <2>3, <3>1, ProgressStutters
  <2>4. CASE ResolveOperand2
    <3>1. ~LacksModRm(Template(2))
      BY <1>2, <2>4 DEF ResolveOperand2, ModRmIsNone, Return, Template, OperandsHaveTheirModRm
    <3> QED
      BY <1>2, <2>4, <3>1, ReturnRefines
  <2>5. CASE RunsOutInPhase
    BY <1>2, <2>5, RunsOutRefines
  <2>6. CASE UNCHANGED vars
    BY <2>6 DEF vars, Stream!streamVars
  <2> QED
    BY <1>2, <2>1, <2>2, <2>3, <2>4, <2>5, <2>6 DEF Next, DecodeStep
<1> QED
  BY <1>1, <1>2, TypeCorrect, BookkeepingHolds, LocatedHolds, OperandsFindTheirModRm, PTL
  DEF Spec, ImplementsStream, Stream!Spec
=============================================================================
