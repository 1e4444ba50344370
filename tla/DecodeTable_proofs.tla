------------------------- MODULE DecodeTable_proofs -------------------------
(***************************************************************************)
(* The shipped decode table keeps what the decoder asks of a table.        *)
(***************************************************************************)
EXTENDS DecodeTable, Decoder_refinement

\* The byte ranges of the four quarters of the base table.
LEMMA Quarters ==
  ASSUME NEW i \in Byte
  PROVE  /\ i \in Int /\ 0 <= i /\ i <= 255
         /\ i \in 0..63 <=> i <= 63
         /\ i \in 64..127 <=> 64 <= i /\ i <= 127
         /\ i \in 128..191 <=> 128 <= i /\ i <= 191
         /\ i \in 192..255 <=> 192 <= i
BY ByteRange

\* The templates of the arithmetic blocks that come from a ModRM byte are in
\* their first four columns, whose rows have one.
LEMMA ArithmeticRows ==
  ASSUME NEW i \in Byte, i <= 63, NEW k \in {1, 2},
         ArithmeticOperands(i)[k] \in ModRmTemplates
  PROVE  HasModRm(i)
<1>1. i \in Int /\ 0 <= i /\ i <= 63 /\ i % 8 \in Int /\ 0 <= i % 8 /\ i % 8 <= 7
  BY Quarters
<1>2. CASE i % 8 < 4
  BY <1>1, <1>2 DEF HasModRm
<1>3. CASE i % 8 = 4
  BY <1>1, <1>3 DEF ArithmeticOperands, ModRmTemplates
<1>4. CASE i % 8 = 5
  BY <1>1, <1>4 DEF ArithmeticOperands, ModRmTemplates
<1>5. CASE i % 8 > 5
  BY <1>1, <1>5 DEF ArithmeticOperands, ModRmTemplates
<1> QED
  BY <1>1, <1>2, <1>3, <1>4, <1>5

\* No row of 0x40..0x7F names a ModRM operand.
LEMMA RegisterAndJumpRows ==
  ASSUME NEW i \in Byte, NEW k \in {1, 2}
  PROVE  RegisterAndJumpOperands(i)[k] \notin ModRmTemplates
BY DEF RegisterAndJumpOperands, ModRmTemplates

\* Rows 0x80..0xBF: an operand out of the ModRM byte only where the GDR word has one.
LEMMA MoveRows ==
  ASSUME NEW i \in Byte, 128 <= i, i <= 191, NEW k \in {1, 2},
         MoveOperands(i)[k] \in ModRmTemplates
  PROVE  HasModRm(i)
<1>1. i \in Int
  BY Quarters
<1>2. CASE i <= 143
  BY <1>1, <1>2 DEF HasModRm
<1>3. CASE i > 143
  BY <1>1, <1>3 DEF MoveOperands, ModRmTemplates
<1> QED
  BY <1>1, <1>2, <1>3

\* Rows 0xC0..0xFF: the same.
LEMMA ControlRows ==
  ASSUME NEW i \in Byte, 192 <= i, NEW k \in {1, 2},
         ControlOperands(i)[k] \in ModRmTemplates
  PROVE  HasModRm(i)
<1>1. i \in Int
  BY Quarters
<1>2. i \in {196, 197, 198, 199} \/ i \in 216..223
  BY <1>1 DEF ControlOperands, ModRmTemplates
<1> QED
  BY <1>1, <1>2 DEF HasModRm

\* Every row of the shipped table that is reached without a ModRM byte has no
\* operand that needs one.
THEOREM ShippedTableIsConsistent ==
  ASSUME DECODE = DecodeRows
  PROVE  TableIsConsistent
<1> SUFFICES ASSUME NEW i \in Byte, ~WantsModRm(i), NEW k \in {1, 2},
                    DECODE[i].operands[k] \in ModRmTemplates
             PROVE  FALSE
  BY DEF TableIsConsistent
<1>1. DECODE[i] = [grp |-> GroupOf(i), has_modrm |-> HasModRm(i),
                   operands |-> BaseOperands(i)]
  <2>1. i \in 0..351 /\ i < 256
    BY Quarters
  <2>2. DecodeRows[i] = Row(i)
    BY <2>1, Zenon DEF DecodeRows
  <2> QED
    BY <2>1, <2>2 DEF Row
<1>2. ~HasModRm(i) /\ BaseOperands(i)[k] \in ModRmTemplates
  BY <1>1 DEF WantsModRm
<1>3. CASE i <= 63
  BY <1>2, <1>3, Quarters, ArithmeticRows DEF BaseOperands
<1>4. CASE 64 <= i /\ i <= 127
  BY <1>2, <1>4, Quarters, RegisterAndJumpRows DEF BaseOperands
<1>5. CASE 128 <= i /\ i <= 191
  BY <1>2, <1>5, Quarters, MoveRows DEF BaseOperands
<1>6. CASE 192 <= i
  BY <1>2, <1>6, Quarters, ControlRows DEF BaseOperands
<1> QED
  BY <1>3, <1>4, <1>5, <1>6, Quarters

\* With the shipped table, no input makes the decoder look for an operand in a
\* ModRM byte it did not read.
THEOREM ShippedOperandsFindTheirModRm ==
  ASSUME DECODE = DecodeRows
  PROVE  Spec => []OperandsHaveTheirModRm
BY ShippedTableIsConsistent, OperandsFindTheirModRm

\* The decoder as shipped is the stream its callers see: whatever the input and
\* whatever the calls, each decode is one step decided by the input and the
\* cursor alone.
THEOREM ShippedDecoderImplementsStream ==
  ASSUME DECODE = DecodeRows
  PROVE  Spec => ImplementsStream
BY ShippedTableIsConsistent, DecoderImplementsStream
-----------------------------------------------------------------------------
(* Immediates.                                                             *)

\* The templates that take no bytes of their own.
WithoutBytes == ModRmTemplates \union {"NONE", "FIXED8", "FIXED16"}

\* No immediate, or the one.
OneAtMost(pair) == pair[1] \in WithoutBytes \/ pair[2] \in WithoutBytes

\* A template that takes no bytes has no width.
LEMMA WithoutWidth ==
  ASSUME NEW t \in WithoutBytes
  PROVE  ImmediateWidth(t) = 0
BY DEF WithoutBytes, ModRmTemplates, ImmediateWidth, Words

\* Each block of the table, by what its rows name.
LEMMA ArithmeticImmediates ==
  ASSUME NEW i \in Byte, i <= 63
  PROVE  OneAtMost(ArithmeticOperands(i))
<1>1. i \in Int /\ 0 <= i /\ i % 8 \in Int /\ 0 <= i % 8 /\ i % 8 <= 7
  BY Quarters
<1>2. \/ i % 8 = 0 \/ i % 8 = 1 \/ i % 8 = 2 \/ i % 8 = 3
      \/ i % 8 = 4 \/ i % 8 = 5 \/ i % 8 > 5
  BY <1>1
<1> DEFINE op == ArithmeticOperands(i)
<1>3. CASE i % 8 = 0
  BY <1>3 DEF ArithmeticOperands, OneAtMost, WithoutBytes, ModRmTemplates
<1>4. CASE i % 8 = 1
  BY <1>4 DEF ArithmeticOperands, OneAtMost, WithoutBytes, ModRmTemplates
<1>5. CASE i % 8 = 2
  BY <1>5 DEF ArithmeticOperands, OneAtMost, WithoutBytes, ModRmTemplates
<1>6. CASE i % 8 = 3
  BY <1>6 DEF ArithmeticOperands, OneAtMost, WithoutBytes, ModRmTemplates
<1>7. CASE i % 8 = 4
  BY <1>7 DEF ArithmeticOperands, OneAtMost, WithoutBytes, ModRmTemplates
<1>8. CASE i % 8 = 5
  BY <1>8 DEF ArithmeticOperands, OneAtMost, WithoutBytes, ModRmTemplates
<1>9. CASE i % 8 > 5
  <2>1. op[2] = "NONE"
    BY <1>1, <1>9 DEF ArithmeticOperands
  <2> QED
    BY <2>1 DEF OneAtMost, WithoutBytes
<1> QED
  BY <1>2, <1>3, <1>4, <1>5, <1>6, <1>7, <1>8, <1>9

LEMMA RegisterAndJumpImmediates ==
  ASSUME NEW i \in Byte
  PROVE  OneAtMost(RegisterAndJumpOperands(i))
BY DEF RegisterAndJumpOperands, OneAtMost, WithoutBytes

LEMMA MoveImmediates ==
  ASSUME NEW i \in Byte
  PROVE  OneAtMost(MoveOperands(i))
<1> SUFFICES ASSUME MoveOperands(i)[1] \notin WithoutBytes
             PROVE  MoveOperands(i)[2] \in WithoutBytes
  BY DEF OneAtMost
<1>1. i \in Int
  BY Quarters
<1>2. i = 154 \/ i = 162 \/ i = 163
  BY <1>1 DEF MoveOperands, WithoutBytes, ModRmTemplates
<1>3. MoveOperands(i)[2] \in {"NONE", "FIXED8", "FIXED16"}
  BY <1>2 DEF MoveOperands
<1> QED
  BY <1>3 DEF WithoutBytes

LEMMA ControlImmediates ==
  ASSUME NEW i \in Byte
  PROVE  OneAtMost(ControlOperands(i))
<1> SUFFICES ASSUME ControlOperands(i)[1] \notin WithoutBytes
             PROVE  ControlOperands(i)[2] \in WithoutBytes
  BY DEF OneAtMost
<1>1. i \in Int
  BY Quarters
<1>2. \/ i \in {192, 194, 200, 202} \/ i \in {205, 212, 213}
      \/ i \in 224..227 \union {235} \/ i \in {230, 231, 232, 233, 234}
  BY <1>1 DEF ControlOperands, WithoutBytes, ModRmTemplates
<1>3. ControlOperands(i)[2] \in {"NONE", "FIXED8", "FIXED16"}
  BY <1>1, <1>2 DEF ControlOperands
<1> QED
  BY <1>3 DEF WithoutBytes

LEMMA GroupImmediates ==
  ASSUME NEW g \in Int, 1 <= g, g <= 12, NEW reg \in Int
  PROVE  OneAtMost(GroupOperands(g, reg))
<1>1. GroupOperands(g, reg)[1] \in {"MODRM8", "MODRM16"}
  BY DEF GroupOperands
<1> QED
  BY <1>1 DEF OneAtMost, WithoutBytes, ModRmTemplates

\* No row of the shipped table takes both of its operands from the immediates.
THEOREM ShippedTableHasOneImmediate ==
  ASSUME DECODE = DecodeRows
  PROVE  OneImmediate
<1> SUFFICES ASSUME NEW i \in RowIndex PROVE OneAtMost(DECODE[i].operands)
  BY WithoutWidth DEF OneImmediate, OneAtMost
<1>1. i \in Int /\ 0 <= i /\ i <= 351 /\ DECODE[i] = Row(i)
  <2>1. DecodeRows[i] = Row(i)
    BY Zenon DEF DecodeRows, RowIndex
  <2> QED
    BY <2>1, RowRange
<1>2. CASE i < 256
  <2>1. i \in Byte
    BY <1>1, <1>2, ByteRange
  <2>2. DECODE[i].operands = BaseOperands(i)
    BY <1>1, <1>2 DEF Row
  <2>3. CASE i <= 63
    BY <2>1, <2>2, <2>3, Quarters, ArithmeticImmediates DEF BaseOperands
  <2>4. CASE 64 <= i /\ i <= 127
    BY <2>1, <2>2, <2>4, Quarters, RegisterAndJumpImmediates DEF BaseOperands
  <2>5. CASE 128 <= i /\ i <= 191
    BY <2>1, <2>2, <2>5, Quarters, MoveImmediates DEF BaseOperands
  <2>6. CASE 192 <= i
    BY <2>1, <2>2, <2>6, Quarters, ControlImmediates DEF BaseOperands
  <2> QED
    BY <1>1, <2>3, <2>4, <2>5, <2>6
<1>3. CASE i >= 256
  <2> DEFINE g   == 1 + (i - 256) \div 8
             reg == i % 8
  <2>1. DECODE[i].operands = GroupOperands(g, reg)
    BY <1>1, <1>3 DEF Row
  <2>2. g \in Int /\ 1 <= g /\ g <= 12 /\ reg \in Int
    BY <1>1, <1>3
  <2> HIDE DEF g, reg
  <2> QED
    BY <2>1, <2>2, GroupImmediates
<1> QED
  BY <1>1, <1>2, <1>3

\* With the shipped table, the numbers a returned operand carries are the ones
\* its bytes spell, whatever the input and whatever the calls.
THEOREM ShippedNumbersAreSpelt ==
  ASSUME DECODE = DecodeRows
  PROVE  Spec => []OperandsSpellTheirBytes
BY ShippedTableHasOneImmediate, NumbersAreSpelt
=============================================================================
