--------------------------- MODULE OperandMeanings ---------------------------
(***************************************************************************)
(* What an instruction does to its operands in the 8086's own terms:       *)
(* registers, numbers, and memory with its segment, registers and offset.  *)
(* This is the reference the renderings and the hardware check are         *)
(* compared with, not a translation of code.                               *)
(***************************************************************************)
EXTENDS DecodedInstruction

Meaning(kind, width, segment, registers, number) ==
  [kind |-> kind, width |-> width, segment |-> segment,
   registers |-> registers, number |-> number]

Register(name)  == Meaning("register", 0, None, << name >>, 0)
Number16(value) == Meaning("number", 0, None, << >>, value % 65536)
MemoryAt(width, segment, registers, number) ==
  Meaning("memory", width, segment, registers, number % 65536)

Present(i) == {i.prefix_bytes[k] : k \in DOMAIN i.prefix_bytes}

\* The latest of the prefixes in S is the one the processor keeps.
Latest(bytes, S) ==
  {bytes[k] : k \in {k \in DOMAIN bytes :
     bytes[k] \in S /\ \A j \in DOMAIN bytes : j > k => bytes[j] \notin S}}

Override(i) ==
  LET p == Latest(i.prefix_bytes, {38, 46, 54, 62})
  IN CASE p = {38} -> "ES" [] p = {46} -> "CS" [] p = {54} -> "SS" [] p = {62} -> "DS"
       [] p = {} -> None

In(i, default) == IF Override(i) = None THEN default ELSE Override(i)

\* An address without a register of its own is in the data segment, one with
\* BP in it in the stack.
DefaultSegment(registers) == IF \E k \in DOMAIN registers : registers[k] = "BP" THEN "SS" ELSE "DS"

\* Bits of the memory an operand moves; none where the operation has a width
\* of its own (a far pointer) or only computes the address.
Unsized(m) == m \in {"LES", "LDS", "LEA", "CALLF", "JMPF"}

\* A near target is its distance from the next instruction, a far one a byte.
OperandMeaning(i, operand) ==
  LET v == operand.value
      k == operand.kind
  IN CASE k \in RegisterKinds -> Register(operand.register)
       [] k \in {"imm8", "imm16", "imm8s"} -> Number16(v[1])
       [] k \in {"rel8", "rel16"} -> Meaning("near", 0, None, << >>, v[1] % 65536)
       [] k = "far16" -> Meaning("far", 0, None, << >>, v[1] * 16 + v[2])
       [] k = "offset8_16"  -> MemoryAt(8, In(i, "DS"), << >>, v[1])
       [] k = "offset16_16" -> MemoryAt(16, In(i, "DS"), << >>, v[1])
       [] k = "addr16" ->
            LET registers == IF v[1] = 0 /\ v[2] = 6 THEN << >> ELSE BaseRegisters[v[2] + 1]
            IN MemoryAt(IF Unsized(Mnemonic(i)) /\ v[4] = 16 THEN 0 ELSE v[4],
                        In(i, DefaultSegment(registers)), registers, v[3])

\* The memory a string operation or a table look-up works on, with the source
\* in segment s.
ImpliedMemory(m, s) ==
  LET here == MemoryAt(0, "ES", << "DI" >>, 0)
      from == MemoryAt(0, s, << "SI" >>, 0)
  IN CASE m \in {"STOSB", "STOSW", "SCASB", "SCASW"} -> << here >>
       [] m \in {"LODSB", "LODSW"} -> << from >>
       [] m \in {"MOVSB", "MOVSW", "CMPSB", "CMPSW"} -> << here, from >>
       [] m = "XLAT" -> << MemoryAt(0, s, << "BX" >>, 0) >>
       [] OTHER -> << >>

Shifts == {"ROL", "ROR", "RCL", "RCR", "SHL", "SHR", "SAR"}

ImpliedOne(i) == IF i.opcode \in {208, 209} /\ Mnemonic(i) \in Shifts THEN << Number16(1) >> ELSE << >>

\* The prefix that repeats a string operation.
Repeats(i) == IF Mnemonic(i) \in _STRING_OPS THEN Latest(i.prefix_bytes, {242, 243}) ELSE {}

Operands(i) ==
  LET decoded == DecodedOperands(i)
  IN IF Mnemonic(i) = "NOP" THEN << >>
     ELSE [k \in 1..Len(decoded) |-> OperandMeaning(i, decoded[k])]
          \o ImpliedOne(i) \o ImpliedMemory(Mnemonic(i), In(i, "DS"))

=============================================================================
