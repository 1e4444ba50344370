----------------------------- MODULE Rendering -----------------------------
(***************************************************************************)
(* Decode and print: the decoder walks a buffer from its start, as the     *)
(* command line's emit and a library user drive it, and each instruction   *)
(* it returns is rendered in the two styles at the address it was found    *)
(* at, or compared with a recording.  The properties read the text back    *)
(* as the 8086 would understand it and compare that with what was decoded. *)
(***************************************************************************)
EXTENDS GhidraListing, NasmText, HardwareCheck

CONSTANTS
  Contexts,       \* where a buffer is loaded, and the code segment given
  StyleOptions    \* the options the NASM style is used with

\* The linear address of the first byte; code_segment may be no segment at all.
Context == [origin : Nat, code_segment : Int]

ASSUME ContextAssumption == Contexts \subseteq Context
ASSUME OptionsAssumption == StyleOptions \subseteq FormatOptions

VARIABLES
  asked,   \* the arguments of the latest rendering
  text     \* what it returned or raised

renderVars == << vars, asked, text >>

Nothing == [style |-> "none", address |-> 0, code_segment |-> NoSegment,
            preserve_operand_order |-> FALSE,
            options |-> [legacy_prefixes |-> FALSE, iced_mnemonics |-> FALSE,
                         mnemonic_only |-> FALSE]]

RenderInit == Init /\ asked = Nothing /\ text = NoText

Decode ==
  /\ DecodeNext("decode_next")
  /\ asked' = Nothing /\ text' = NoText

Decoding == DecodeStep /\ UNCHANGED << asked, text >>

RenderBody(c, preserve) ==
  LET address == c.origin + start
  IN /\ Returned
     /\ asked' = [Nothing EXCEPT !.style = "ghidra", !.address = address,
                                 !.code_segment = c.code_segment,
                                 !.preserve_operand_order = preserve]
     /\ text' = render_body(result, address, preserve, c.code_segment)
     /\ UNCHANGED vars

\* emit sets the options' ip to the linear address before it formats.
FormatInstruction(c, opts) ==
  LET address == c.origin + start
  IN /\ Returned
     /\ asked' = [Nothing EXCEPT !.style = "nasm", !.address = address, !.options = opts]
     /\ text' = format_instruction(result, opts, address)
     /\ UNCHANGED vars

\* The renderers keep nothing from one call to the next, so an instruction is
\* rendered once; what a second call would say is another behaviour.
Render ==
  /\ asked = Nothing
  /\ \E c \in Contexts :
       \/ \E preserve \in BOOLEAN : RenderBody(c, preserve)
       \/ \E opts \in StyleOptions : FormatInstruction(c, opts)

RenderNext == Decode \/ Decoding \/ Render

RenderSpec == RenderInit /\ [][RenderNext]_renderVars

-----------------------------------------------------------------------------
(* What a text says, to a reader who knows the 8086 and not the bytes.     *)

\* One operation under its several names.
Operation(name) ==
  CASE name = "JC"  -> "JB"
    [] name \in {"JNC", "JAE"} -> "JNB"
    [] name = "JGE" -> "JNL"
    [] name = "JG"  -> "JNLE"
    [] name = "JA"  -> "JNBE"
    [] name = "JE"  -> "JZ"
    [] name = "JNE" -> "JNZ"
    [] name = "XLATB" -> "XLAT"
    [] OTHER -> name

Segments == {"ES", "CS", "SS", "DS"}
Said(prefixes) == {prefixes[k] : k \in DOMAIN prefixes}

RepeatRead(prefixes) ==
  {IF p = "REPNE" THEN 242 ELSE 243 : p \in Said(prefixes) \ ({"LOCK"} \union Segments)}

SegmentRead(prefixes) ==
  IF Said(prefixes) \intersect Segments = {} THEN "DS"
  ELSE CHOOSE s \in Said(prefixes) \intersect Segments : TRUE

ByteRegisters == {REGISTER8_LUT[k] : k \in DOMAIN REGISTER8_LUT}

\* The width of a memory operand: what is printed, else that of the register
\* it goes with; 99 when a reader cannot tell.
WidthRead(t, word) ==
  LET names == UNION {{t.operands[k].registers[1]} :
                        k \in {k \in DOMAIN t.operands : t.operands[k].kind = "register"}}
  IN CASE word = "byte" -> 8
       [] word = "word" -> 16
       [] word = None /\ Unsized(t.mnemonic) -> 0
       [] word = None /\ ~Unsized(t.mnemonic) /\ names = {} -> 99
       [] OTHER -> IF names \subseteq ByteRegisters THEN 8 ELSE 16

NumberOr0(numbers) == IF numbers = << >> THEN 0 ELSE numbers[1]

\* next is the linear address of the next instruction.
OperandRead(t, o, next) ==
  LET n == o.numbers
      segment == IF o.segment = None THEN DefaultSegment(o.registers) ELSE o.segment
  IN CASE o.kind = "register" -> Register(o.registers[1])
       [] o.kind = "number"   -> Number16(n[1])
       [] o.kind = "memory"   -> MemoryAt(WidthRead(t, o.size), segment, o.registers, NumberOr0(n))
       [] o.kind = "pointer"  -> MemoryAt(0, segment, o.registers, 0)
       [] o.kind = "offset"   -> Meaning("near", 0, None, << >>, (n[1] - next) % 65536)
       [] o.kind = "pair" ->
            IF t.mnemonic \in {"CALLF", "JMPF"}
            THEN Meaning("far", 0, None, << >>, n[1] * 16 + n[2])
            ELSE Meaning("near", 0, None, << >>, (n[1] * 16 + n[2] - next) % 65536)

Readings(t, next) == [k \in DOMAIN t.operands |-> OperandRead(t, t.operands[k], next)]

\* A listing writes out what a string operation and a shift imply.
ListingRead(t, next) ==
  Readings(t, next) \o (IF t.mnemonic = "XLAT" THEN ImpliedMemory("XLAT", "DS") ELSE << >>)

\* The other style writes neither, drops the base of ten of AAM and AAD, and
\* tells a far call from a near one by its pair.
NasmNamed(t) ==
  LET far == \E k \in DOMAIN t.operands : t.operands[k].kind = "pair"
  IN [t EXCEPT !.mnemonic = CASE far /\ @ = "CALL" -> "CALLF"
                              [] far /\ @ = "JMP"  -> "JMPF"
                              [] OTHER -> Operation(@)]

NasmRead(t, next) ==
  LET m == t.mnemonic
  IN Readings(t, next)
     \o (IF m \in Shifts /\ Len(t.operands) = 1 THEN << Number16(1) >> ELSE << >>)
     \o (IF m \in {"AAM", "AAD"} /\ t.operands = << >> THEN << Number16(10) >> ELSE << >>)
     \o ImpliedMemory(m, SegmentRead(t.prefixes))

-----------------------------------------------------------------------------
(* Properties.                                                             *)

\* Arguments and text have their shapes, and the decoder under them its types.
RenderTypeOK ==
  /\ TypeOK
  /\ asked.style \in {"none", "ghidra", "nasm"}
  /\ asked.address \in Nat /\ asked.code_segment \in Int
  /\ asked.options \in FormatOptions
  /\ text.raised \in {"none", "ValueError"}
  /\ Said(text.prefixes) \subseteq {"REP", "REPE", "REPNE", "LOCK"} \union Segments
  /\ \A k \in DOMAIN text.operands :
       LET o == text.operands[k]
       IN /\ o.kind \in {"register", "number", "pair", "offset", "memory", "pointer"}
          /\ o.segment \in {None} \union Segments /\ o.size \in {None, "byte", "word"}
          /\ Len(o.registers) <= 2 /\ Len(o.numbers) <= 2
          /\ o.kind \in {"pair", "offset"} => o.numbers[Len(o.numbers)] \in Word16

Listed    == asked.style = "ghidra" /\ text.raised = "none"
Formatted == asked.style = "nasm" /\ ~asked.options.mnemonic_only
NextIP    == asked.address + length(result)

\* Text of the two forms of memory operand a listing names no segment for.
LosesOverride(i) ==
  /\ Override(i) # None
  /\ Mnemonic(i) = "XLAT" \/ (i.has_modrm /\ Mnemonic(i) \in {"CALLF", "JMPF"})

Swapped(s) == IF Len(s) = 2 THEN << s[2], s[1] >> ELSE s

\* A listing line says what was decoded: operation, repetition, and for every
\* operand its register, its value, or the width, segment, registers and offset
\* of its memory -- in the decoded order, or for the default order perhaps the
\* other way round.  Not said by this style: the number of an ESC, LOCK, the
\* overrides of LosesOverride, and which of two REP families came last.
ListingReadsBack ==
  Listed /\ ~LosesOverride(result) =>
    LET read == ListingRead(text, NextIP)
    IN /\ Operation(text.mnemonic) = Mnemonic(result)
       /\ {242, 243} \subseteq Present(result) \/ RepeatRead(text.prefixes) = Repeats(result)
       /\ \/ read = Operands(result)
          \/ ~asked.preserve_operand_order /\ read = Swapped(Operands(result))

Widthless(m) == [k \in DOMAIN m |-> [m[k] EXCEPT !.width = 0]]

\* The NASM style says it too, with LOCK and the latest of every prefix
\* family, always in the decoded order.  Not said by this style: the width of a
\* memory operand, and whether an indirect call or jump is far.  The legacy
\* style says it for instructions that have no prefix.
NasmReadsBack ==
  Formatted /\ (asked.options.legacy_prefixes => result.prefix_bytes = << >>) =>
    LET t == NasmNamed(text)
    IN /\ \/ t.mnemonic = Mnemonic(result)
          \/ result.has_modrm /\ << t.mnemonic, Mnemonic(result) >> \in
                                {<< "CALL", "CALLF" >>, << "JMP", "JMPF" >>}
       /\ RepeatRead(t.prefixes) = Repeats(result)
       /\ "LOCK" \in Said(t.prefixes) <=> 240 \in Present(result)
       /\ Widthless(NasmRead(t, NextIP)) = Widthless(Operands(result))

\* The byte a pair names, and the one a near branch reaches if it stays in its
\* segment.
LinearOf(o) == o.numbers[1] * 16 + o.numbers[2]
Straight    == NextIP + result.operand1.value[1]

\* The pair of a near branch is the instruction pointer's own in the segment
\* that was given; without one it is the branch's byte as long as the branch
\* stays in its aligned 64K of the first megabyte, and NASM's offset is always
\* the low word of the same byte.  A far pointer's pair is normalized and names
\* the byte the pointer named.
TargetsNameTheirByte ==
  text.operands # << >> =>
    LET o == text.operands[1]
        near == result.operand1.kind \in {"rel8", "rel16"}
    IN /\ Listed /\ near /\ asked.code_segment # NoSegment =>
            /\ o.numbers[1] = asked.code_segment
            /\ o.numbers[2] = (Straight - o.numbers[1] * 16) % 65536
       /\ Listed /\ near /\ asked.code_segment = NoSegment =>
            /\ o.numbers[1] \in {s * 4096 : s \in 0..15}
            /\ Straight \div 65536 = asked.address \div 65536 /\ asked.address < 1048576
                 => LinearOf(o) = Straight
       /\ Formatted /\ near => o.numbers[1] = Straight % 65536
       /\ Listed /\ result.operand1.kind = "far16" =>
            /\ o.numbers[1] % 4096 = 0
            /\ LinearOf(o) = result.operand1.value[1] * 16 + result.operand1.value[2]

\* The prefix set of the decoder and the rows of its table agree on what is an
\* instruction: no line shows a prefix, a group or another member of the
\* enumeration that stands for none.
PlaceholdersNeverPrint ==
  asked.style # "none" /\ text.raised = "none" =>
    text.mnemonic \notin Placeholders \union {"INVALID", "LOCK", None}

\* The hardware check raises no false alarm: whatever the instruction did, its
\* recording agrees with what was decoded -- lengths and targets across the end
\* of the instruction pointer, addresses across the end of a segment and of the
\* first megabyte, words half of which changed.  Except a word at 0xFFFF whose
\* high byte alone changed: that byte is at offset 0 and counts as a mismatch.
FaithfulRecordingsPass == Returned /\ asked = Nothing => FaithfulPasses(result)

\* And its tolerance for half of a word masks no wrong address: a write of the
\* operand's width two bytes beside where it was decoded is a mismatch, and one
\* byte beside a byte (beside a word it overlaps one of the word's bytes).
MovedWritesAreCaught ==
  Returned /\ asked = Nothing /\ WritesOperand(result) =>
    \A distance \in {-2, 2} \union (IF result.operand1.value[4] = 8 THEN {-1, 1} ELSE {}) :
      MovedIsCaught(result, distance)

\* README.md:35-38: the order-preserving text, for semantic comparisons, retains
\* segment prefixes.
SemanticTextKeepsSegments ==
  Listed /\ asked.preserve_operand_order =>
    LET read == ListingRead(text, NextIP)
    IN \A k \in DOMAIN read : read[k].segment = Operands(result)[k].segment
=============================================================================
