---------------------------- MODULE HardwareCheck ----------------------------
(***************************************************************************)
(* The comparison of the decoder with recordings of the processor          *)
(* (tools/check_sst.py): what a recorded instruction pointer and the       *)
(* recorded memory writes say about a decoded instruction.  A test is      *)
(*   before  the registers and the instruction pointer,                    *)
(*   after   the instruction pointer, or NotRecorded,                      *)
(*   writes  the addresses of the bytes that changed;                      *)
(* its bytes are the decoder's buffer.                                     *)
(***************************************************************************)
EXTENDS OperandMeanings

CONSTANT RegisterFiles   \* the registers recordings start from

Word16 == 0..65535
RegisterNames == {"BX", "BP", "SI", "DI", "ES", "CS", "SS", "DS", "IP"}

ASSUME RegisterFilesAssumption == RegisterFiles \subseteq [RegisterNames -> Word16]

NotRecorded == -1
Memory20(address) == address % 1048576

_RELATIVE == {JumpNames[k] : k \in DOMAIN JumpNames}
             \union {"JCXZ", "LOOP", "LOOPE", "LOOPNE", "JMP"}
_OPAQUE_TRANSFER ==
  {"CALL", "CALLF", "JMPF", "RET", "RETF", "IRET", "INT", "INT3", "INTO", "HLT"}
_READS_OPERAND == {"PUSH"}
_MAY_FAULT     == {"DIV", "IDIV", "AAM", "AAD"}

\* How the change of the instruction pointer has to be read.
classify(i) ==
  LET m         == Mnemonic(i)
      displaced == i.operand1.kind \in {"rel8", "rel16"}
  IN CASE m \in {"CALL", "JMP"} /\ ~displaced     -> "opaque"
       [] m \in _OPAQUE_TRANSFER                  -> "opaque"
       [] m \in _RELATIVE /\ displaced            -> "relative"
       [] m \in _MAY_FAULT                        -> "faults"
       [] OTHER                                   -> "linear"

\* No address has more than two registers.
SumOf(registers, before) ==
  CASE Len(registers) = 0 -> 0
    [] Len(registers) = 1 -> before[registers[1]]
    [] Len(registers) = 2 -> before[registers[1]] + before[registers[2]]

\* Mutant: the offset is not kept to 16 bits.
OffsetUnwrapped(mode, before) == (mode[3] % 65536) + SumOf(ADDR16_REGISTER_TEXT(mode), before)

\* Each register is added and the sum kept to 16 bits.
Offset(mode, before) == (mode[3] + SumOf(ADDR16_REGISTER_TEXT(mode), before)) % 65536

effective_address(i, before) ==
  LET mode     == i.operand1.value
      override == _segment_override(i)
      segment  == IF override = None THEN base_register(mode) ELSE override
  IN Memory20(before[segment] * 16 + Offset(mode, before))

\* Mutant: a near miss is accepted on either side.
CandidatesAround(i, physical) ==
  {physical, Memory20(physical + 1), Memory20(physical - 1)}

\* A word may be recorded by its high byte alone.
Candidates(i, physical) ==
  {physical} \union (IF i.operand1.value[4] = 16 THEN {Memory20(physical + 1)} ELSE {})

\* The counter a transfer, a length or a fault raises.
CountOfIP(i, test) ==
  LET next  == (test.before.IP + length(i)) % 65536
      taken == (test.before.IP + length(i) + i.operand1.value[1]) % 65536
      delta == (test.after - test.before.IP) % 65536
      mode  == classify(i)
  IN CASE mode = "opaque"   -> "skipped: opaque transfer"
       [] mode = "relative" ->
            CASE test.after = taken -> "relative target ok (taken)"
              [] test.after # taken /\ test.after = next -> "relative not taken, length ok"
              [] OTHER -> "TARGET MISMATCH"
       [] mode \in {"faults", "linear"} /\ delta = length(i) -> "length ok"
       [] mode = "faults" /\ delta # length(i) -> "skipped: instruction faulted"
       [] mode = "linear" /\ delta # length(i) -> "LENGTH MISMATCH"

ChecksWrites(i, test) ==
  /\ classify(i) = "linear" /\ CountOfIP(i, test) = "length ok"
  /\ Mnemonic(i) \notin _READS_OPERAND
  /\ i.operand1.kind = "addr16"
  /\ test.writes # {}

\* The counters one test raises.
check(i, test) ==
  IF test.after = NotRecorded THEN {"no expectation recorded"}
  ELSE {CountOfIP(i, test)}
       \union (IF ~ChecksWrites(i, test) THEN {}
               ELSE IF Candidates(i, effective_address(i, test.before)) \intersect test.writes # {}
               THEN {"address ok"} ELSE {"ADDRESS MISMATCH"})

Mismatches == {"LENGTH MISMATCH", "TARGET MISMATCH", "ADDRESS MISMATCH"}
-----------------------------------------------------------------------------
(* A faithful recording, by the reference meaning of the operands.         *)

MayGoAnywhere == {"CALL", "CALLF", "JMP", "JMPF", "RET", "RETF", "IRET", "INT", "INT3", "INTO"}
Unconditional == {"CALL", "JMP"}
SomewhereElse == 4660

\* Where the instruction pointer may be after the instruction.
PointersAfter(i, before) ==
  LET m      == Mnemonic(i)
      next   == (before.IP + length(i)) % 65536
      target == {o \in {OperandMeaning(i, d) : d \in {DecodedOperands(i)[k] :
                           k \in DOMAIN DecodedOperands(i)}} : o.kind = "near"}
      reached == {(next + o.number) % 65536 : o \in target}
  IN CASE target # {} -> reached \union (IF m \in Unconditional THEN {} ELSE {next})
       [] target = {} /\ m \in MayGoAnywhere -> {SomewhereElse}
       [] target = {} /\ m \in {"DIV", "IDIV", "AAM"} -> {next, SomewhereElse}
       [] OTHER -> {next}

\* The bytes of a memory operand; the last of a word may be at the start of
\* its segment.
BytesAt(m, width, before) ==
  LET first == m.number + SumOf(m.registers, before)
  IN [k \in 0..(width \div 8 - 1) |-> Memory20(before[m.segment] * 16 + ((first + k) % 65536))]

WritesOperand(i) == i.operand1.kind = "addr16" /\ Mnemonic(i) # "PUSH"

OperandBytes(i, before) ==
  BytesAt(OperandMeaning(i, DecodedOperands(i)[1]), i.operand1.value[4], before)

\* Whichever bytes of the operand changed; a push changes the stack.
WritesOf(i, before) ==
  IF WritesOperand(i)
  THEN SUBSET {OperandBytes(i, before)[k] : k \in DOMAIN OperandBytes(i, before)}
  ELSE {{}, {Memory20(before["SS"] * 16)}}

\* A word that changed in its high byte alone, at the start of the segment.
HighByteWrapped(i, before, writes) ==
  /\ WritesOperand(i) /\ i.operand1.value[4] = 16
  /\ writes = {OperandBytes(i, before)[1]}
  /\ OperandBytes(i, before)[1] # Memory20(OperandBytes(i, before)[0] + 1)

\* Both bytes of a word, or the byte, as many bytes away.
WritesMoved(i, before, distance) ==
  {Memory20(OperandBytes(i, before)[k] + distance) : k \in DOMAIN OperandBytes(i, before)}

\* What the check says of every faithful recording of i.
FaithfulPasses(i) ==
  \A before \in RegisterFiles : \A after \in PointersAfter(i, before) :
    \A writes \in WritesOf(i, before) :
      \/ HighByteWrapped(i, before, writes)
      \/ check(i, [before |-> before, after |-> after, writes |-> writes])
            \intersect Mismatches = {}

\* What it says when the operand was somewhere else.
MovedIsCaught(i, distance) ==
  \A before \in RegisterFiles : \A after \in PointersAfter(i, before) :
    LET test == [before |-> before, after |-> after, writes |-> WritesMoved(i, before, distance)]
    IN ChecksWrites(i, test) => "ADDRESS MISMATCH" \in check(i, test)
=============================================================================
