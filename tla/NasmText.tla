------------------------------ MODULE NasmText ------------------------------
(***************************************************************************)
(* marty_dasm's NASM style (nasm_formatter.py): the prefixes written       *)
(* before the mnemonic, the operands after it, and branch targets as       *)
(* offsets from the options' ip.  Size words, o16 and a16 hang off         *)
(* prefixes the 8086 does not have and off Instruction.disambiguate, which *)
(* its decoder never sets; they are left out, and so are digits and case.  *)
(***************************************************************************)
EXTENDS DecodedInstruction

\* FormatOptions, but for the letter case and memory_operand_size.
FormatOptions ==
  [legacy_prefixes : BOOLEAN, iced_mnemonics : BOOLEAN, mnemonic_only : BOOLEAN]

NotPresent == {}

\* The flags of the instruction are never written by this decoder, so the
\* legacy style has no prefix at all.  Each override and each REP replaces the
\* one before; LOCK is 0xF0 only.
_prefix_state(i, opts) ==
  IF opts.legacy_prefixes THEN [segment |-> None, lock |-> FALSE, repeat |-> NotPresent]
  ELSE [segment |-> _segment_override(i),
        lock    |-> LastIn(i.prefix_bytes, {240}) # NotPresent,
        repeat  |-> LastIn(i.prefix_bytes, {242, 243})]

\* The override is a prefix where no operand can carry it: not with a ModRM
\* byte, and not for the operations that only touch ES.
WritesSegmentFirst(i) ==
  /\ ~i.has_modrm
  /\ Mnemonic(i) \in _STRING_OPS \/ Mnemonic(i) = "XLAT"
  /\ Mnemonic(i) \notin _STOS \union _SCAS \union _INS

format_prefixes(i, opts) ==
  LET state    == _prefix_state(i, opts)
      override == state.segment # None /\ WritesSegmentFirst(i)
      repeats  == Mnemonic(i) \in _STRING_OPS /\ state.repeat # NotPresent
      rep      == IF 242 \in state.repeat THEN rep1_prefix(Mnemonic(i))
                  ELSE rep2_prefix(Mnemonic(i))
  IN (IF override THEN << state.segment >> ELSE << >>)
     \o (IF state.lock THEN << "LOCK" >> ELSE << >>)
     \o (IF repeats THEN << rep >> ELSE << >>)

format_mnemonic(i, opts) ==
  IF opts.iced_mnemonics /\ Mnemonic(i) \in DOMAIN _ICED_ALIASES
  THEN _ICED_ALIASES[Mnemonic(i)]
  ELSE mnemonic_to_str(Mnemonic(i))

\* AAM and AAD with their usual base of ten, and NOP.
operands_suppressed(i) ==
  \/ Mnemonic(i) \in {"AAM", "AAD"} /\ i.operand1.value = << 10 >>
  \/ Mnemonic(i) = "NOP"

\* Registers, then a displacement with its sign unless it is zero.
format_address_16(segment, mode) ==
  MemoryText(None, segment, ADDR16_REGISTER_TEXT(mode),
             CASE IsDisp16(mode) -> << mode[3] % 65536 >>
               [] carries_displacement(mode) /\ ~IsDisp16(mode) /\ mode[3] # 0 -> << mode[3] >>
               [] OTHER -> << >>)

\* IP is 16 bits wide: a branch past its end comes back round.
NearOffset(i, ip, distance) == ((ip % 65536) + distance + length(i)) % 65536

format_operand(i, operand, segment, ip) ==
  LET kind == operand.kind
      v    == operand.value
      named(default) == IF segment # None THEN segment ELSE default
  IN CASE kind \in {"imm8", "imm16"}  -> NumberText(v[1])
       [] kind = "imm8s"              -> NumberText(v[1] % 65536)
       [] kind \in {"rel8", "rel16"}  -> OffsetText(NearOffset(i, ip, v[1]))
       [] kind \in {"offset8_16", "offset16_16"} ->
            MemoryText(None, named("DS"), << >>, << v[1] >>)
       [] kind \in RegisterKinds      -> RegisterText(operand.register)
       [] kind = "addr16"             -> format_address_16(named(base_register(v)), v)
       [] kind = "far16"              -> PairText(v[1], v[2])

format_operands(i, opts, ip) ==
  LET segment  == _prefix_state(i, opts).segment
      operands == DecodedOperands(i)
  IN [k \in 1..Len(operands) |-> format_operand(i, operands[k], segment, ip)]

\* A record that is not complete is written after "(bad)", one without a
\* mnemonic is nothing else.
format_instruction(i, opts, ip) ==
  LET bad == IF i.is_complete THEN << >> ELSE << "(bad)" >>
  IN IF opts.mnemonic_only THEN Rendered("none", << >>, format_mnemonic(i, opts), << >>)
     ELSE IF Mnemonic(i) = "Invalid" THEN Rendered("none", << "(bad)" >>, None, << >>)
     ELSE Rendered("none", bad \o format_prefixes(i, opts), format_mnemonic(i, opts),
                   IF operands_suppressed(i) THEN << >> ELSE format_operands(i, opts, ip))
=============================================================================
