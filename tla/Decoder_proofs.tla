--------------------------- MODULE Decoder_proofs ---------------------------
(***************************************************************************)
(* Theorems about Decoder and the operators it is built from, for every    *)
(* set of buffers and every decode table of the right type.                *)
(***************************************************************************)
EXTENDS Decoder, SequenceTheorems, TLAPS

-----------------------------------------------------------------------------
(* What the byte codecs of Operands and ModRm16 do for every byte value.   *)

\* A byte as a bounded integer; Byte itself stays folded in what follows.
LEMMA ByteRange == \A b : b \in Byte <=> b \in Int /\ 0 <= b /\ b <= 255
BY DEF Byte

\* read_u16, and that a word read as a number and encoded again is the two bytes read:
\* read_u16 followed by to_bytes(2, "little").
LEMMA WordRange ==
  ASSUME NEW lo \in Byte, NEW hi \in Byte
  PROVE  U16(lo, hi) \in Int /\ 0 <= U16(lo, hi) /\ U16(lo, hi) <= 65535
BY ByteRange DEF U16

\* Encoding the word that two bytes were read as gives the two bytes back.
LEMMA WordRoundTrip ==
  ASSUME NEW lo \in Byte, NEW hi \in Byte
  PROVE  LittleEndian(U16(lo, hi)) = << lo, hi >>
<1>1. U16(lo, hi) % 256 = lo /\ U16(lo, hi) \div 256 = hi
  BY ByteRange DEF U16
<1> QED
  BY <1>1 DEF LittleEndian

\* A byte read signed is masked back to itself: read_i8 then value & 0xFF.
LEMMA SignedByte ==
  ASSUME NEW b \in Byte
  PROVE  /\ Signed8(b) \in Int /\ -128 <= Signed8(b) /\ Signed8(b) <= 127
         /\ Signed8(b) % 256 = b
BY ByteRange DEF Signed8

\* A word read in two's complement is a signed 16-bit number.
LEMMA SignedWord ==
  ASSUME NEW lo \in Byte, NEW hi \in Byte
  PROVE  /\ Signed16(U16(lo, hi)) \in Int
         /\ -32768 <= Signed16(U16(lo, hi)) /\ Signed16(U16(lo, hi)) <= 32767
BY WordRange DEF Signed16

\* A short sequence is its elements.
LEMMA ShortSequences ==
  ASSUME NEW s \in Seq(Byte)
  PROVE  /\ Len(s) = 0 => s = << >>
         /\ Len(s) = 1 => s = << s[1] >> /\ s[1] \in Byte
         /\ Len(s) = 2 => s = << s[1], s[2] >> /\ s[1] \in Byte /\ s[2] \in Byte
         /\ Len(s) = 4 => /\ s = << s[1], s[2] >> \o << s[3], s[4] >>
                          /\ s[1] \in Byte /\ s[2] \in Byte
                          /\ s[3] \in Byte /\ s[4] \in Byte
<1>1. Len(s) = 0 => s = << >>
  BY EmptySeq
<1>2. Len(s) = 1 => s = << s[1] >> /\ s[1] \in Byte
  OBVIOUS
<1>3. ASSUME Len(s) = 2
      PROVE  s = << s[1], s[2] >> /\ s[1] \in Byte /\ s[2] \in Byte
  <2>1. s[1] \in Byte /\ s[2] \in Byte
    BY <1>3, ElementOfSeq
  <2>2. /\ << s[1], s[2] >> \in Seq(Byte)
        /\ Len(<< s[1], s[2] >>) = 2
        /\ \A i \in 1..Len(s) : s[i] = << s[1], s[2] >>[i]
    BY <1>3, <2>1
  <2> QED
    BY <1>3, <2>1, <2>2, SeqEqual
<1>4. ASSUME Len(s) = 4
      PROVE  /\ s = << s[1], s[2] >> \o << s[3], s[4] >>
             /\ s[1] \in Byte /\ s[2] \in Byte /\ s[3] \in Byte /\ s[4] \in Byte
  <2> DEFINE a == << s[1], s[2] >>
             b == << s[3], s[4] >>
  <2>1. s[1] \in Byte /\ s[2] \in Byte /\ s[3] \in Byte /\ s[4] \in Byte
    BY <1>4, ElementOfSeq
  <2>2. a \in Seq(Byte) /\ b \in Seq(Byte) /\ Len(a) = 2 /\ Len(b) = 2
    BY <2>1
  <2>3. a[1] = s[1] /\ a[2] = s[2] /\ b[1] = s[3] /\ b[2] = s[4]
    OBVIOUS
  <2> HIDE DEF a, b
  <2>4. /\ a \o b \in Seq(Byte)
        /\ Len(a \o b) = Len(a) + Len(b)
        /\ \A i \in 1..(Len(a) + Len(b)) :
             (a \o b)[i] = IF i <= Len(a) THEN a[i] ELSE b[i - Len(a)]
    BY <2>2, ConcatProperties
  <2>5. Len(a \o b) = 4 /\ \A i \in 1..4 : s[i] = (a \o b)[i]
    BY <2>2, <2>3, <2>4
  <2>6. s = a \o b
    BY <1>4, <2>4, <2>5, SeqEqual
  <2> QED
    BY <2>1, <2>6 DEF a, b
<1> QED
  BY <1>1, <1>2, <1>3, <1>4

\* Appending a byte and then some more is appending all of them.
LEMMA AppendThenConcat ==
  ASSUME NEW s \in Seq(Byte), NEW e \in Byte, NEW t \in Seq(Byte)
  PROVE  Append(s, e) \o t = s \o (<< e >> \o t)
<1> DEFINE a == Append(s, e)
           b == << e >> \o t
<1>1. /\ a \in Seq(Byte) /\ Len(a) = Len(s) + 1
      /\ \A i \in 1..Len(a) : a[i] = IF i <= Len(s) THEN s[i] ELSE e
  OBVIOUS
<1>2. /\ b \in Seq(Byte) /\ Len(b) = Len(t) + 1
      /\ \A i \in 1..Len(b) : b[i] = IF i = 1 THEN e ELSE t[i - 1]
  OBVIOUS
<1> HIDE DEF a, b
<1>3. /\ a \o t \in Seq(Byte) /\ Len(a \o t) = Len(a) + Len(t)
      /\ \A i \in 1..(Len(a) + Len(t)) :
           (a \o t)[i] = IF i <= Len(a) THEN a[i] ELSE t[i - Len(a)]
  BY <1>1, ConcatProperties
<1>4. /\ s \o b \in Seq(Byte) /\ Len(s \o b) = Len(s) + Len(b)
      /\ \A i \in 1..(Len(s) + Len(b)) :
           (s \o b)[i] = IF i <= Len(s) THEN s[i] ELSE b[i - Len(s)]
  BY <1>2, ConcatProperties
<1>5. Len(a \o t) = Len(s \o b)
  BY <1>1, <1>2, <1>3, <1>4
<1>6. ASSUME NEW i \in 1..Len(a \o t)
      PROVE  (a \o t)[i] = (s \o b)[i]
  BY <1>1, <1>2, <1>3, <1>4
<1> QED
  BY <1>3, <1>4, <1>5, <1>6, SeqEqual DEF a, b

\* What one more read adds to a record of the bytes consumed: if t holds the
\* bytes of b between s and p, and n more are there to be read, then t with
\* those n appended holds the bytes between s and p + n.
IsSlice(t, b, s, p) ==
  /\ t \in Seq(Byte)
  /\ Len(t) = p - s
  /\ \A k \in 1..Len(t) : t[k] = b[s + k]

\* A read of n bytes returns the n bytes that follow the cursor.
LEMMA ReadIsSlice ==
  ASSUME NEW b \in Seq(Byte), NEW p \in Nat, NEW n \in Nat, p + n <= Len(b)
  PROVE  IsSlice(SubSeq(b, p + 1, p + n), b, p, p + n)
<1> DEFINE r == SubSeq(b, p + 1, p + n)
<1>1. CASE n = 0
  <2>1. r = << >>
    BY <1>1, SubSeqEmpty
  <2> QED
    BY <1>1, <2>1, EmptySeq DEF IsSlice
<1>2. CASE n > 0
  <2>1. p + 1 \in 1..Len(b) /\ p + n \in 1..Len(b)
    BY <1>2
  <2>2. /\ r \in Seq(Byte)
        /\ Len(r) = n
        /\ \A i \in 1..n : r[i] = b[p + i]
    BY <1>2, <2>1
  <2> QED
    BY <2>2 DEF IsSlice
<1> QED
  BY <1>1, <1>2

\* The bytes between two positions, as one stretch of the input.
LEMMA PassedIsSlice ==
  ASSUME NEW b \in Seq(Byte), NEW p \in Nat, NEW q \in Nat, p <= q, q <= Len(b)
  PROVE  IsSlice(SubSeq(b, p + 1, q), b, p, q)
<1> DEFINE n == q - p
<1>1. n \in Nat /\ p + n = q
  OBVIOUS
<1> HIDE DEF n
<1>2. IsSlice(SubSeq(b, p + 1, p + n), b, p, p + n)
  BY <1>1, ReadIsSlice
<1> QED
  BY <1>1, <1>2

\* Two sequences that are the same stretch of the input are equal.
LEMMA SliceIsUnique ==
  ASSUME NEW b \in Seq(Byte), NEW s, NEW p, NEW t, NEW r,
         IsSlice(t, b, s, p), IsSlice(r, b, s, p)
  PROVE  t = r
BY SeqEqual DEF IsSlice

\* The empty sequence is the empty stretch.
LEMMA SliceStarts ==
  ASSUME NEW b \in Seq(Byte), NEW s \in Nat
  PROVE  IsSlice(<< >>, b, s, s)
BY DEF IsSlice

\* Appending the next byte of the input extends a stretch by it.
LEMMA SliceAppends ==
  ASSUME NEW b \in Seq(Byte), NEW s \in Nat, NEW p \in Nat, s <= p, p + 1 <= Len(b),
         NEW t, IsSlice(t, b, s, p)
  PROVE  IsSlice(Append(t, b[p + 1]), b, s, p + 1)
<1>1. t \in Seq(Byte) /\ Len(t) = p - s /\ \A k \in 1..Len(t) : t[k] = b[s + k]
  BY DEF IsSlice
<1>2. b[p + 1] \in Byte
  BY ElementOfSeq
<1>3. /\ Append(t, b[p + 1]) \in Seq(Byte)
      /\ Len(Append(t, b[p + 1])) = Len(t) + 1
      /\ \A k \in 1..(Len(t) + 1) :
           Append(t, b[p + 1])[k] = IF k <= Len(t) THEN t[k] ELSE b[p + 1]
  BY <1>1, <1>2
<1>4. ASSUME NEW k \in 1..(Len(t) + 1)
      PROVE  Append(t, b[p + 1])[k] = b[s + k]
  <2>1. CASE k <= Len(t)
    BY <1>1, <1>3, <2>1
  <2>2. CASE k = Len(t) + 1
    <3>1. s + k = p + 1
      BY <1>1, <2>2
    <3>2. Append(t, b[p + 1])[k] = b[p + 1]
      BY <1>1, <1>3, <2>2
    <3> QED
      BY <3>1, <3>2
  <2> QED
    BY <1>1, <2>1, <2>2
<1> QED
  BY <1>1, <1>3, <1>4 DEF IsSlice

\* A stretch followed by the stretch that continues it is one stretch.
LEMMA SliceExtends ==
  ASSUME NEW b \in Seq(Byte), NEW s \in Nat, NEW p \in Nat, NEW q \in Nat,
         s <= p, p <= q, NEW t, NEW r, IsSlice(t, b, s, p), IsSlice(r, b, p, q)
  PROVE  IsSlice(t \o r, b, s, q)
<1>1. /\ t \in Seq(Byte) /\ r \in Seq(Byte)
      /\ Len(t) = p - s /\ Len(r) = q - p
      /\ \A k \in 1..Len(t) : t[k] = b[s + k]
      /\ \A k \in 1..Len(r) : r[k] = b[p + k]
  BY DEF IsSlice
<1>2. /\ t \o r \in Seq(Byte)
      /\ Len(t \o r) = Len(t) + Len(r)
      /\ \A i \in 1..(Len(t) + Len(r)) :
           (t \o r)[i] = IF i <= Len(t) THEN t[i] ELSE r[i - Len(t)]
  BY <1>1, ConcatProperties
<1>3. ASSUME NEW k \in 1..Len(t \o r)
      PROVE  (t \o r)[k] = b[s + k]
  BY <1>1, <1>2
<1> QED
  BY <1>1, <1>2, <1>3 DEF IsSlice

\* resolve_operand records exactly the bytes its template consumed, in stream
\* order, for every template and all byte values: sign-masked bytes, words and
\* far pointers included.
THEOREM RecordedIsRead ==
  ASSUME NEW template \in OperandTemplate,
         NEW raw \in Seq(Byte), Len(raw) = ImmediateWidth(template)
  PROVE  RecordedBytes(template, raw) = raw
<1>1. CASE template \in {"IMM8", "REL8"}
  <2>1. ImmediateWidth(template) = 1
    BY <1>1 DEF ImmediateWidth, Words
  <2>2. RecordedBytes(template, raw) = << raw[1] >>
    BY <1>1 DEF RecordedBytes, Words
  <2> QED
    BY <2>1, <2>2, ShortSequences
<1>2. CASE template = "IMM8SE"
  <2>1. ImmediateWidth(template) = 1
    BY <1>2 DEF ImmediateWidth, Words
  <2>2. RecordedBytes(template, raw) = << Signed8(raw[1]) % 256 >>
    BY <1>2 DEF RecordedBytes, Words
  <2>3. raw = << raw[1] >> /\ raw[1] \in Byte
    BY <2>1, ShortSequences
  <2> QED
    BY <2>2, <2>3, SignedByte
<1>3. CASE template \in Words
  <2>1. ImmediateWidth(template) = 2
    BY <1>3 DEF ImmediateWidth, Words
  <2>2. RecordedBytes(template, raw) = LittleEndian(U16(raw[1], raw[2]))
    BY <1>3 DEF RecordedBytes, Words
  <2>3. raw = << raw[1], raw[2] >> /\ raw[1] \in Byte /\ raw[2] \in Byte
    BY <2>1, ShortSequences
  <2>4. LittleEndian(U16(raw[1], raw[2])) = << raw[1], raw[2] >>
    BY <2>3, WordRoundTrip
  <2> QED
    BY <2>2, <2>3, <2>4
<1>4. CASE template = "FAR"
  <2>1. ImmediateWidth(template) = 4
    BY <1>4 DEF ImmediateWidth, Words
  <2>2. RecordedBytes(template, raw) =
          LittleEndian(U16(raw[1], raw[2])) \o LittleEndian(U16(raw[3], raw[4]))
    BY <1>4 DEF RecordedBytes, Words, FarOffset, FarSegment
  <2>3. /\ raw = << raw[1], raw[2] >> \o << raw[3], raw[4] >>
        /\ raw[1] \in Byte /\ raw[2] \in Byte /\ raw[3] \in Byte /\ raw[4] \in Byte
    BY <2>1, ShortSequences
  <2>4. /\ LittleEndian(U16(raw[1], raw[2])) = << raw[1], raw[2] >>
        /\ LittleEndian(U16(raw[3], raw[4])) = << raw[3], raw[4] >>
    BY <2>3, WordRoundTrip
  <2> QED
    BY <2>2, <2>3, <2>4
<1>5. CASE template \in ModRmTemplates \union {"NONE", "FIXED8", "FIXED16"}
  <2>1. ImmediateWidth(template) = 0
    BY <1>5 DEF ImmediateWidth, ModRmTemplates, Words
  <2>2. RecordedBytes(template, raw) = << >>
    BY <1>5 DEF RecordedBytes, ModRmTemplates, Words
  <2> QED
    BY <2>1, <2>2, ShortSequences
<1> QED
  BY <1>1, <1>2, <1>3, <1>4, <1>5 DEF OperandTemplate, Words

-----------------------------------------------------------------------------
(* What the operators of the steps return.                                 *)

\* The Instruction a decode starts from is a record of the right shape.
LEMMA BlankIsTyped == Blank \in InstructionRecord /\ NO_OPERAND \in Operand
<1>1. << >> \in Seq(Byte) /\ << >> \in Seq(Int)
  BY EmptySeq
<1>2. NO_OPERAND \in Operand
  BY <1>1 DEF NO_OPERAND, Operand, OperandKind
<1>3. 0 \in Byte
  BY ByteRange
<1> QED
  BY <1>1, <1>2, <1>3 DEF Blank, InstructionRecord

\* The two intervals of the model as inequalities; both stay folded below.
LEMMA RowRange == \A i : i \in RowIndex <=> i \in Int /\ 0 <= i /\ i <= 351
BY DEF RowIndex

\* The signed displacements as inequalities.
LEMMA DisplacementRange ==
  \A d : d \in SignedDisplacement <=> d \in Int /\ -32768 <= d /\ d <= 32767
<1>1. \A lo, hi \in Int : \A d : d \in lo..hi <=> d \in Int /\ lo <= d /\ d <= hi
  OBVIOUS
<1>2. -32768 \in Int /\ 32767 \in Int
  OBVIOUS
<1> DEFINE lo == -32768
           hi == 32767
<1>3. SignedDisplacement = lo..hi /\ lo \in Int /\ hi \in Int
  BY <1>2 DEF SignedDisplacement
<1> HIDE DEF lo, hi
<1>4. \A d : d \in SignedDisplacement <=> d \in Int /\ lo <= d /\ d <= hi
  BY <1>1, <1>3
<1> QED
  BY <1>4 DEF lo, hi

\* The fields mod, reg and rm of a byte, and the displacement widths they can ask for.
LEMMA ModRmFields ==
  ASSUME NEW b \in Byte
  PROVE  /\ Mod(b) \in Int /\ Rm(b) \in Int /\ Reg(b) \in Int
         /\ 0 <= Reg(b) /\ Reg(b) <= 7
         /\ DisplacementWidth(b) \in {0, 1, 2}
<1>1. Mod(b) \in Int /\ Rm(b) \in Int
  BY ByteRange DEF Mod, Rm
<1>2. Reg(b) \in Int /\ 0 <= Reg(b) /\ Reg(b) <= 7
  BY ByteRange DEF Reg
<1>3. DisplacementWidth(b) \in {0, 1, 2}
  BY DEF DisplacementWidth
<1> QED
  BY <1>1, <1>2, <1>3

\* What the type of the table says of one row.
LEMMA RowsAreTyped ==
  ASSUME NEW i \in RowIndex
  PROVE  /\ DECODE[i].grp \in 0..12
         /\ DECODE[i].operands[1] \in OperandTemplate
         /\ DECODE[i].operands[2] \in OperandTemplate
BY TableAssumption DEF TableRow

\* Re-indexing a base row on reg lands on a row of the table.
LEMMA GroupRowInTable ==
  ASSUME NEW i \in RowIndex, NEW raw \in Byte
  PROVE  GroupRow(i, raw) \in RowIndex
<1>0. \A n : n \in 0..12 <=> n \in Int /\ 0 <= n /\ n <= 12
  OBVIOUS
<1>1. DECODE[i].grp \in Int /\ 0 <= DECODE[i].grp /\ DECODE[i].grp <= 12
  BY <1>0, RowsAreTyped, Zenon
<1>2. Reg(raw) \in Int /\ 0 <= Reg(raw) /\ Reg(raw) <= 7
  BY ModRmFields
<1> DEFINE g == DECODE[i].grp
           r == Reg(raw)
<1> HIDE DEF g, r
<1>3. g \in Int /\ 0 <= g /\ g <= 12 /\ r \in Int /\ 0 <= r /\ r <= 7
  BY <1>1, <1>2 DEF g, r
<1>4. g # 0 => 256 + (g - 1) * 8 + r \in Int /\ 0 <= 256 + (g - 1) * 8 + r
               /\ 256 + (g - 1) * 8 + r <= 351
  BY <1>3
<1>5. GroupRow(i, raw) = IF g = 0 THEN i ELSE 256 + (g - 1) * 8 + r
  BY DEF GroupRow, GROUP_BASE, GROUP_STRIDE, g, r
<1>6. CASE g = 0
  BY <1>5, <1>6
<1>7. CASE g # 0
  BY <1>4, <1>5, <1>7, RowRange
<1> QED
  BY <1>6, <1>7

\* A template consumes nothing, a byte, a word or a far pointer.
LEMMA WidthIsTyped ==
  ASSUME NEW template \in OperandTemplate
  PROVE  ImmediateWidth(template) \in {0, 1, 2, 4}
BY DEF ImmediateWidth

\* A template over a ModRM byte that was read resolves to an operand.
LEMMA ModRmOperandIsTyped ==
  ASSUME NEW template \in ModRmTemplates, NEW m \in Byte, NEW d \in Int
  PROVE  ModRmOperand(template, m, d) \in Operand
<1>1. Mod(m) \in Int /\ Rm(m) \in Int /\ Reg(m) \in Int /\ Reg(m) % 4 \in Int
  BY ModRmFields
<1>2. /\ << Reg(m) >> \in Seq(Int) /\ << Reg(m) % 4 >> \in Seq(Int)
      /\ << Rm(m) >> \in Seq(Int) /\ << Mod(m), Rm(m), d >> \in Seq(Int)
  BY <1>1
<1> QED
  BY <1>2 DEF ModRmOperand, ModRmTemplates, Operand, OperandKind

\* A template over the bytes it consumed resolves to an operand.
LEMMA ImmediateOperandIsTyped ==
  ASSUME NEW template \in OperandTemplate \ ModRmTemplates,
         NEW raw \in Seq(Byte), Len(raw) = ImmediateWidth(template)
  PROVE  ImmediateOperand(template, raw) \in Operand
<1>1. CASE template \in {"NONE", "FIXED8", "FIXED16"}
  <2>1. << >> \in Seq(Int)
    BY EmptySeq
  <2> QED
    BY <1>1, <2>1, BlankIsTyped DEF ImmediateOperand, Operand, OperandKind
<1>2. CASE template \in {"IMM8", "REL8", "IMM8SE"}
  <2>1. raw[1] \in Byte
    BY <1>2, ElementOfSeq DEF ImmediateWidth, Words
  <2>2. << raw[1] >> \in Seq(Int) /\ << Signed8(raw[1]) >> \in Seq(Int)
    BY <2>1, ByteRange, SignedByte
  <2> QED
    BY <1>2, <2>2 DEF ImmediateOperand, Operand, OperandKind
<1>3. CASE template \in Words
  <2>1. raw[1] \in Byte /\ raw[2] \in Byte
    BY <1>3, ElementOfSeq DEF ImmediateWidth, Words
  <2>2. U16(raw[1], raw[2]) \in Int
    BY <2>1, WordRange
  <2>3. Signed16(U16(raw[1], raw[2])) \in Int
    BY <2>1, SignedWord
  <2>4. << U16(raw[1], raw[2]) >> \in Seq(Int) /\ << Signed16(U16(raw[1], raw[2])) >> \in Seq(Int)
    BY <2>2, <2>3
  <2> QED
    BY <1>3, <2>4 DEF ImmediateOperand, Operand, OperandKind, Words
<1>4. CASE template = "FAR"
  <2>1. raw[1] \in Byte /\ raw[2] \in Byte /\ raw[3] \in Byte /\ raw[4] \in Byte
    BY <1>4, ElementOfSeq DEF ImmediateWidth, Words
  <2>2. \A lo, hi \in Byte : U16(lo, hi) \in Int
    BY WordRange
  <2>3. FarOffset(raw) = U16(raw[1], raw[2]) /\ FarSegment(raw) = U16(raw[3], raw[4])
    BY Zenon DEF FarSegment, FarOffset
  <2>4. FarSegment(raw) \in Int /\ FarOffset(raw) \in Int
    BY <2>1, <2>2, <2>3, Zenon
  <2>5. << FarSegment(raw), FarOffset(raw) >> \in Seq(Int)
    BY <2>4
  <2> QED
    BY <1>4, <2>5 DEF ImmediateOperand, Operand, OperandKind
<1> QED
  BY <1>1, <1>2, <1>3, <1>4 DEF OperandTemplate, Words

\* The displacement read with a ModRM byte, as a value and as bytes.
LEMMA DisplacementIsRead ==
  ASSUME NEW width \in {0, 1, 2}, NEW raw \in Seq(Byte), Len(raw) = width
  PROVE  /\ DisplacementValue(width, raw) \in SignedDisplacement
         /\ DisplacementRecorded(width, raw) = raw
<1>1. CASE width = 0
  BY <1>1, DisplacementRange DEF DisplacementValue, DisplacementRecorded
<1>2. CASE width = 1
  <2>1. raw[1] \in Byte
    BY <1>2, ElementOfSeq
  <2>2. Signed8(raw[1]) \in SignedDisplacement
    BY <2>1, SignedByte, DisplacementRange
  <2> QED
    BY <1>2, <2>2 DEF DisplacementValue, DisplacementRecorded
<1>3. CASE width = 2
  <2>1. raw = << raw[1], raw[2] >> /\ raw[1] \in Byte /\ raw[2] \in Byte
    BY <1>3, ShortSequences
  <2>2. /\ DisplacementValue(width, raw) = Signed16(U16(raw[1], raw[2]))
        /\ DisplacementRecorded(width, raw) = LittleEndian(U16(raw[1], raw[2]))
    BY <1>3 DEF DisplacementValue, DisplacementRecorded
  <2>3. LittleEndian(U16(raw[1], raw[2])) = << raw[1], raw[2] >>
    BY <2>1, WordRoundTrip
  <2>4. Signed16(U16(raw[1], raw[2])) \in SignedDisplacement
    BY <2>1, SignedWord, DisplacementRange
  <2> QED
    BY <2>1, <2>2, <2>3, <2>4
<1> QED
  BY <1>1, <1>2, <1>3

-----------------------------------------------------------------------------
(* Type correctness.                                                       *)

\* The intervals of TypeOK as inequalities.
LEMMA Cursor ==
  ASSUME TypeOK
  PROVE  /\ buf \in Seq(Byte) /\ Len(buf) \in Nat
         /\ position \in Nat /\ position <= Len(buf)
         /\ start \in Nat /\ start <= Len(buf)
BY DEF TypeOK

\* An index up to the length of the input is a position of a reader over it.
LEMMA InInput ==
  ASSUME NEW b \in Seq(Byte), NEW p \in Nat, p <= Len(b)
  PROVE  p \in 0..Len(b)
OBVIOUS

\* A read that succeeds returns bytes of the input and moves the cursor past them.
LEMMA ReadIsTyped ==
  ASSUME TypeOK, NEW n \in Nat, CanRead(n)
  PROVE  /\ Read(n) \in Seq(Byte)
         /\ Len(Read(n)) = n
         /\ IsSlice(Read(n), buf, position, position + n)
         /\ position + n \in 0..Len(buf)
         /\ n > 0 => buf[position + 1] \in Byte
<1>1. position + n <= Len(buf) /\ position + n \in Nat
  BY Cursor DEF CanRead
<1>2. IsSlice(Read(n), buf, position, position + n)
  BY Cursor, <1>1, ReadIsSlice DEF Read
<1>3. Len(Read(n)) = n /\ Read(n) \in Seq(Byte)
  BY Cursor, <1>2 DEF IsSlice
<1>4. position + n \in 0..Len(buf)
  BY Cursor, <1>1, InInput
<1>5. n > 0 => buf[position + 1] \in Byte
  BY Cursor, <1>1, ElementOfSeq
<1> QED
  BY <1>2, <1>3, <1>4, <1>5

\* Returning an instruction or an exception leaves typed locals behind.
LEMMA ReturnIsTyped ==
  ASSUME NEW o \in Outcomes, NEW i \in InstructionRecord, Return(o, i)
  PROVE  /\ pc' \in Phases \union {"idle"}
         /\ inst' \in InstructionRecord
         /\ row' \in RowIndex
         /\ modrm' \in Byte \union {NoModRm}
         /\ displacement' \in SignedDisplacement
         /\ outcome' \in Outcomes
         /\ result' \in InstructionRecord
<1>1. 0 \in RowIndex /\ 0 \in SignedDisplacement
  BY RowRange, DisplacementRange
<1> QED
  BY <1>1, BlankIsTyped, Zenon DEF Return

\* Running out of input is reported by one of the exceptions a call may raise.
LEMMA EndOfInputIsTyped == EndOfInput \in Outcomes
BY DEF EndOfInput, Outcomes

\* A new decoder is typed.
LEMMA InitIsTyped == Init => TypeOK
<1> SUFFICES ASSUME Init PROVE TypeOK
  OBVIOUS
<1>1. buf \in Seq(Byte) /\ position = 0 /\ start = 0
  BY BufferAssumption DEF Init
<1>2. position \in 0..Len(buf) /\ start \in 0..Len(buf)
  BY <1>1, InInput
<1>3. row \in RowIndex /\ displacement \in SignedDisplacement /\ modrm \in Byte \union {NoModRm}
  BY RowRange, DisplacementRange DEF Init
<1> QED
  BY <1>1, <1>2, <1>3, BlankIsTyped DEF Init, TypeOK, CpuType, Outcomes

\* A call that keeps nothing leaves every variable typed.
LEMMA AnswerIsTyped ==
  ASSUME TypeOK, NEW o \in Outcomes, Answer(o),
         buf' = buf, cpu' \in CpuType, position' \in 0..Len(buf)
  PROVE  TypeOK'
<1>1. Return(o, Blank) /\ start' = 0 /\ via' = "decode_next"
  BY DEF Answer
<1>2. start' \in 0..Len(buf')
  BY <1>1, Cursor, InInput
<1>3. /\ pc' \in Phases \union {"idle"}
      /\ inst' \in InstructionRecord
      /\ row' \in RowIndex
      /\ modrm' \in Byte \union {NoModRm}
      /\ displacement' \in SignedDisplacement
      /\ outcome' \in Outcomes
      /\ result' \in InstructionRecord
  BY <1>1, BlankIsTyped, ReturnIsTyped, Zenon
<1>4. buf' \in Seq(Byte) /\ position' \in 0..Len(buf') /\ via' \in {"decode_next", "__next__"}
  BY <1>1, Cursor
<1> QED
  BY <1>2, <1>3, <1>4, Zenon DEF TypeOK

\* Every call made between decodes, set_position outside the input included, keeps the types.
LEMMA CallIsTyped == TypeOK /\ Call => TypeOK'
<1> SUFFICES ASSUME TypeOK, Call PROVE TypeOK'
  OBVIOUS
<1>0. /\ cpu \in CpuType /\ position \in 0..Len(buf)
      /\ "none" \in Outcomes /\ "ValueError" \in Outcomes
  BY Zenon DEF TypeOK, Outcomes
<1>1. ASSUME NEW p \in -1..(Len(buf) + 1), SetPosition(p)
      PROVE  TypeOK'
  <2>1. CASE p \in 0..Len(buf)
    <3>1. Answer("none") /\ position' = p /\ buf' = buf /\ cpu' = cpu
      BY <1>1, <2>1, Zenon DEF SetPosition
    <3> QED
      BY <1>0, <2>1, <3>1, AnswerIsTyped, Zenon
  <2>2. CASE p \notin 0..Len(buf)
    <3>1. Answer("ValueError") /\ position' = position /\ buf' = buf /\ cpu' = cpu
      BY <1>1, <2>2, Zenon DEF SetPosition
    <3> QED
      BY <1>0, <3>1, AnswerIsTyped, Zenon
  <2> QED
    BY <2>1, <2>2
<1>2. CASE Rewind
  <2>1. Answer("none") /\ position' = 0 /\ buf' = buf /\ cpu' = cpu
    BY <1>2, Zenon DEF Rewind
  <2>2. 0 \in 0..Len(buf)
    BY Cursor, InInput
  <2> QED
    BY <1>0, <2>1, <2>2, AnswerIsTyped, Zenon
<1>3. ASSUME NEW c \in CpuType, SetOptions(c)
      PROVE  TypeOK'
  <2>1. Answer("none") /\ position' = position /\ buf' = buf /\ cpu' = c
    BY <1>3, Zenon DEF SetOptions
  <2> QED
    BY <1>0, <1>3, <2>1, AnswerIsTyped, Zenon
<1>4. ASSUME NEW v \in {"decode_next", "__next__"}, DecodeNext(v)
      PROVE  TypeOK'
  <2>1. buf' = buf /\ cpu' = cpu /\ start' = position /\ position' = position /\ via' = v
    BY <1>4, Zenon DEF DecodeNext
  <2>2. /\ pc' \in Phases \union {"idle"}
        /\ inst' \in InstructionRecord
        /\ row' \in RowIndex
        /\ modrm' \in Byte \union {NoModRm}
        /\ displacement' \in SignedDisplacement
        /\ outcome' \in Outcomes
        /\ result' \in InstructionRecord
    <3>1. CASE cpu = "Intel808x"
      <4>1. /\ pc' = "opcode" /\ outcome' = "none" /\ result' = Blank
            /\ inst' = inst /\ row' = row /\ modrm' = modrm /\ displacement' = displacement
        BY <1>4, <3>1 DEF DecodeNext, local
      <4> QED
        BY <4>1, <1>0, BlankIsTyped, Zenon DEF TypeOK, Phases
    <3>2. CASE cpu # "Intel808x"
      <4>1. Return("DecodeError", Blank)
        BY <1>4, <3>2, Zenon DEF DecodeNext
      <4>2. "DecodeError" \in Outcomes
        BY Zenon DEF Outcomes
      <4> QED
        BY <4>1, <4>2, BlankIsTyped, ReturnIsTyped, Zenon
    <3> QED
      BY <3>1, <3>2
  <2> QED
    BY <1>4, <2>1, <2>2, Zenon DEF TypeOK
<1> QED
  BY <1>1, <1>2, <1>3, <1>4, Zenon DEF Call

\* A decode step that goes on, and one that returns.
LEMMA ProgressIsTyped ==
  ASSUME TypeOK, UNCHANGED << buf, cpu, via, start, outcome, result >>,
         position' \in 0..Len(buf), pc' \in Phases,
         inst' \in InstructionRecord, row' \in RowIndex,
         modrm' \in Byte \union {NoModRm}, displacement' \in SignedDisplacement
  PROVE  TypeOK'
BY Zenon DEF TypeOK

\* A step that ends a decode, by a return or by an exception, keeps the types.
LEMMA AbandonIsTyped ==
  ASSUME TypeOK, UNCHANGED << buf, cpu, via, start >>, position' \in 0..Len(buf),
         NEW o \in Outcomes, NEW i \in InstructionRecord, Return(o, i)
  PROVE  TypeOK'
<1>1. /\ pc' \in Phases \union {"idle"}
      /\ inst' \in InstructionRecord
      /\ row' \in RowIndex
      /\ modrm' \in Byte \union {NoModRm}
      /\ displacement' \in SignedDisplacement
      /\ outcome' \in Outcomes
      /\ result' \in InstructionRecord
  BY BlankIsTyped, ReturnIsTyped, Zenon
<1> QED
  BY <1>1, Zenon DEF TypeOK

\* The bytes of a widened record are still bytes.
LEMMA RecordedIsTyped ==
  ASSUME TypeOK, NEW template \in OperandTemplate,
         NEW raw \in Seq(Byte), Len(raw) = ImmediateWidth(template)
  PROVE  /\ Recorded(template, raw) \in InstructionRecord
         /\ Recorded(template, raw).instruction_bytes = inst.instruction_bytes \o raw
<1>1. RecordedBytes(template, raw) = raw
  BY RecordedIsRead
<1>2. inst \in InstructionRecord
  BY Zenon DEF TypeOK
<1>3. /\ inst.instruction_bytes \in Seq(Byte) /\ inst.immediate_bytes \in Seq(Byte)
  BY <1>2 DEF InstructionRecord
<1>4. /\ inst.instruction_bytes \o raw \in Seq(Byte)
      /\ inst.immediate_bytes \o raw \in Seq(Byte)
  BY <1>3, ConcatProperties
<1>5. Recorded(template, raw) =
        [inst EXCEPT !.instruction_bytes = inst.instruction_bytes \o raw,
                     !.immediate_bytes = inst.immediate_bytes \o raw]
  BY <1>1 DEF Recorded
<1> QED
  BY <1>2, <1>4, <1>5 DEF InstructionRecord

\* resolve_operand returns an operand unless it lacks the ModRM byte it needs.
LEMMA ResolvedIsTyped ==
  ASSUME TypeOK, NEW template \in OperandTemplate, ~LacksModRm(template),
         NEW raw \in Seq(Byte), Len(raw) = ImmediateWidth(template)
  PROVE  Resolved(template, raw) \in Operand
<1>1. CASE template \in ModRmTemplates
  <2>1. modrm \in Byte \union {NoModRm} /\ displacement \in SignedDisplacement
    BY Zenon DEF TypeOK
  <2>2. modrm \in Byte /\ displacement \in Int
    BY <1>1, <2>1, DisplacementRange DEF LacksModRm
  <2>3. ModRmOperand(template, modrm, displacement) \in Operand
    BY <1>1, <2>2, ModRmOperandIsTyped, Zenon
  <2> QED
    BY <1>1, <2>3, Zenon DEF Resolved
<1>2. CASE template \notin ModRmTemplates
  BY <1>2, ImmediateOperandIsTyped, Zenon DEF Resolved
<1> QED
  BY <1>1, <1>2

\* A turn of the prefix loop keeps the types.
LEMMA PrefixOrOpcodeIsTyped == TypeOK /\ ReadPrefixOrOpcode => TypeOK'
<1> SUFFICES ASSUME TypeOK, ReadPrefixOrOpcode PROVE TypeOK'
  OBVIOUS
<1> DEFINE b     == buf[position + 1]
           taken == Append(inst.instruction_bytes, b)
<1>1. CanRead(1) /\ position' = position + 1
      /\ UNCHANGED << buf, cpu, via, start, modrm, displacement, outcome, result >>
  BY DEF ReadPrefixOrOpcode
<1>2. b \in Byte /\ position' \in 0..Len(buf)
  BY <1>1, ReadIsTyped
<1>3. inst \in InstructionRecord /\ row \in RowIndex
      /\ modrm \in Byte \union {NoModRm} /\ displacement \in SignedDisplacement
  BY Zenon DEF TypeOK
<1>4. /\ inst.instruction_bytes \in Seq(Byte) /\ inst.prefix_bytes \in Seq(Byte)
  BY <1>3 DEF InstructionRecord
<1>5. /\ taken \in Seq(Byte) /\ Append(inst.prefix_bytes, b) \in Seq(Byte)
      /\ Len(taken) - 1 \in Nat /\ Len(inst.prefix_bytes) \in Nat
  BY <1>2, <1>4
<1>6. CASE b \in PrefixFlags
  <2>1. /\ inst' = [inst EXCEPT !.instruction_bytes = taken,
                                !.prefix_bytes = Append(inst.prefix_bytes, b)]
        /\ pc' = pc /\ row' = row /\ pc = "opcode"
    BY <1>6 DEF ReadPrefixOrOpcode
  <2> HIDE DEF b, taken
  <2>2. inst' \in InstructionRecord
    BY <1>3, <1>5, <2>1 DEF InstructionRecord
  <2>3. pc' \in Phases
    BY <2>1, Zenon DEF Phases
  <2> QED
    BY <1>1, <1>2, <1>3, <2>1, <2>2, <2>3, ProgressIsTyped, Zenon
<1>7. CASE b \notin PrefixFlags
  <2>1. /\ inst' = [inst EXCEPT !.instruction_bytes = taken,
                                !.prefix_ct = Len(inst.prefix_bytes),
                                !.opcode_offset = Len(taken) - 1,
                                !.opcode = b]
        /\ pc' = (IF WantsModRm(b) THEN "modrm" ELSE "operand1")
        /\ row' = b
    BY <1>7 DEF ReadPrefixOrOpcode
  <2> HIDE DEF b, taken
  <2>2. inst' \in InstructionRecord
    BY <1>2, <1>3, <1>5, <2>1 DEF InstructionRecord
  <2>3. pc' \in Phases
    BY <2>1, Zenon DEF Phases
  <2>4. row' \in RowIndex
    BY <1>2, <2>1, ByteRange, RowRange
  <2> QED
    BY <1>1, <1>2, <1>3, <2>2, <2>3, <2>4, ProgressIsTyped, Zenon
<1> QED
  BY <1>6, <1>7

\* What reading the ModRM byte does: it records the bytes it passes, typed.
ModRmBytes == 1 + DisplacementWidth(buf[position + 1])

\* Reading the ModRM byte records it and its displacement as they stand in the input.
LEMMA ModRmStep ==
  ASSUME TypeOK, ReadModRm
  PROVE  /\ buf[position + 1] \in Byte
         /\ ModRmBytes \in {1, 2, 3} /\ ModRmBytes \in Nat
         /\ CanRead(ModRmBytes)
         /\ position' = position + ModRmBytes
         /\ displacement' \in SignedDisplacement
         /\ inst' = [inst EXCEPT
              !.instruction_bytes = inst.instruction_bytes \o Read(ModRmBytes),
              !.has_modrm = TRUE,
              !.modrm_offset = Len(inst.instruction_bytes),
              !.displacement_size = ModRmBytes - 1]
         /\ UNCHANGED << buf, cpu, via, start, outcome, result >>
<1> DEFINE raw   == buf[position + 1]
           width == DisplacementWidth(raw)
           disp  == SubSeq(buf, position + 2, position + 1 + width)
<1>1. /\ CanRead(1) /\ CanRead(1 + width)
      /\ position' = position + 1 + width
      /\ displacement' = DisplacementValue(width, disp)
      /\ inst' = [inst EXCEPT
           !.instruction_bytes = Append(inst.instruction_bytes, raw)
                                   \o DisplacementRecorded(width, disp),
           !.has_modrm = TRUE,
           !.modrm_offset = Len(inst.instruction_bytes),
           !.displacement_size = width]
      /\ UNCHANGED << buf, cpu, via, start, outcome, result >>
  BY DEF ReadModRm
<1>2. raw \in Byte
  BY <1>1, ReadIsTyped
<1>3. width \in {0, 1, 2}
  BY <1>2, ModRmFields
<1>4. ModRmBytes = 1 + width
  BY DEF ModRmBytes
<1>5. /\ buf \in Seq(Byte) /\ position \in Nat /\ width \in Nat
      /\ position + 1 + width <= Len(buf)
  BY <1>1, <1>3, Cursor DEF CanRead
<1> DEFINE p == position + 1
           q == position + 1 + width
<1> HIDE DEF raw, width
<1>6. p \in Nat /\ q \in Nat /\ p <= q /\ q <= Len(buf) /\ q = p + width
  BY <1>5
<1>7. disp = SubSeq(buf, p + 1, q)
  BY <1>5
<1> HIDE DEF disp, p, q
<1>8. IsSlice(disp, buf, p, q)
  BY <1>5, <1>6, <1>7, PassedIsSlice
<1>9. disp \in Seq(Byte) /\ Len(disp) = width
  BY <1>5, <1>6, <1>8 DEF IsSlice
<1>10. displacement' \in SignedDisplacement /\ DisplacementRecorded(width, disp) = disp
  BY <1>1, <1>3, <1>9, DisplacementIsRead
<1>11. IsSlice(<< raw >>, buf, position, p)
  BY <1>2, <1>5 DEF IsSlice, raw, p
<1>12. IsSlice(<< raw >> \o disp, buf, position, q)
  <2>1. position <= p
    BY <1>5 DEF p
  <2> QED
    BY <1>5, <1>6, <1>8, <1>11, <2>1, SliceExtends
<1>13. IsSlice(Read(ModRmBytes), buf, position, q)
  <2>1. ModRmBytes \in Nat /\ position + ModRmBytes = q
    BY <1>4, <1>5 DEF q
  <2> QED
    BY <1>1, <1>4, <2>1, ReadIsTyped
<1>14. Read(ModRmBytes) = << raw >> \o disp
  BY <1>5, <1>12, <1>13, SliceIsUnique
<1>15. Append(inst.instruction_bytes, raw) \o disp = inst.instruction_bytes \o Read(ModRmBytes)
  <2>1. inst \in InstructionRecord
    BY Zenon DEF TypeOK
  <2>2. inst.instruction_bytes \in Seq(Byte)
    BY <2>1 DEF InstructionRecord
  <2>3. disp \in Seq(Byte)
    BY <1>9
  <2> DEFINE s == inst.instruction_bytes
  <2> HIDE DEF s
  <2>4. Append(s, raw) \o disp = s \o (<< raw >> \o disp)
    BY <1>2, <2>2, <2>3, AppendThenConcat, Zenon DEF s
  <2> QED
    BY <1>14, <2>4, Zenon DEF s
<1>16. ModRmBytes \in {1, 2, 3} /\ ModRmBytes \in Nat /\ ModRmBytes - 1 = width
  BY <1>3, <1>4
<1>17. position' = position + ModRmBytes
  BY <1>1, <1>4, <1>5
<1>18. inst' = [inst EXCEPT
         !.instruction_bytes = inst.instruction_bytes \o Read(ModRmBytes),
         !.has_modrm = TRUE,
         !.modrm_offset = Len(inst.instruction_bytes),
         !.displacement_size = ModRmBytes - 1]
  BY <1>1, <1>10, <1>15, <1>16
<1>19. CanRead(ModRmBytes) /\ buf[position + 1] \in Byte
  BY <1>1, <1>2, <1>4 DEF raw
<1> QED
  BY <1>1, <1>10, <1>16, <1>17, <1>18, <1>19, Zenon

\* Reading the ModRM byte keeps the types.
LEMMA ModRmIsTyped == TypeOK /\ ReadModRm => TypeOK'
<1> SUFFICES ASSUME TypeOK, ReadModRm PROVE TypeOK'
  OBVIOUS
<1>1. inst \in InstructionRecord /\ row \in RowIndex
  BY Zenon DEF TypeOK
<1>2. position' \in 0..Len(buf) /\ Read(ModRmBytes) \in Seq(Byte)
  BY ModRmStep, ReadIsTyped, Zenon
<1>3. modrm' = buf[position + 1] /\ row' = GroupRow(row, buf[position + 1]) /\ pc' = "operand1"
  BY DEF ReadModRm
<1>4. modrm' \in Byte \union {NoModRm} /\ row' \in RowIndex /\ pc' \in Phases
  BY <1>1, <1>3, ModRmStep, GroupRowInTable, Zenon DEF Phases
<1>5. inst' \in InstructionRecord
  <2>1. inst.instruction_bytes \in Seq(Byte)
    BY <1>1 DEF InstructionRecord
  <2>2. /\ inst.instruction_bytes \o Read(ModRmBytes) \in Seq(Byte)
        /\ Len(inst.instruction_bytes) \in Nat
    BY <1>2, <2>1, ConcatProperties
  <2>3. ModRmBytes - 1 \in 0..2
    BY ModRmStep
  <2> DEFINE bytes == inst.instruction_bytes \o Read(ModRmBytes)
             offset == Len(inst.instruction_bytes)
             width == ModRmBytes - 1
  <2>4. inst' = [inst EXCEPT !.instruction_bytes = bytes, !.has_modrm = TRUE,
                             !.modrm_offset = offset, !.displacement_size = width]
    BY ModRmStep, Zenon
  <2>5. bytes \in Seq(Byte) /\ offset \in Nat /\ width \in 0..2
    BY <2>2, <2>3
  <2> HIDE DEF bytes, offset, width
  <2> QED
    BY <1>1, <2>4, <2>5 DEF InstructionRecord
<1> QED
  BY <1>2, <1>4, <1>5, ModRmStep, ProgressIsTyped, Zenon

\* The template in force in each of the two operand phases.
Template(k) == DECODE[row].operands[k]

\* What resolving an operand does: raise, with nothing read, or record the
\* bytes it passes.
LEMMA OperandStep ==
  ASSUME TypeOK, NEW k \in {1, 2}, CanRead(ImmediateWidth(Template(k)))
  PROVE  LET n   == ImmediateWidth(Template(k))
             rec == Recorded(Template(k), Read(n))
         IN /\ n \in Nat
            /\ position + n \in 0..Len(buf)
            /\ rec \in InstructionRecord
            /\ rec.instruction_bytes = inst.instruction_bytes \o Read(n)
            /\ ~LacksModRm(Template(k)) => Resolved(Template(k), Read(n)) \in Operand
<1> DEFINE t == Template(k)
           n == ImmediateWidth(t)
<1>1. t \in OperandTemplate
  <2>1. row \in RowIndex
    BY Zenon DEF TypeOK
  <2> QED
    BY <2>1, RowsAreTyped DEF Template
<1> HIDE DEF t
<1>2. n \in Nat
  BY <1>1, WidthIsTyped
<1>3. CanRead(n)
  BY DEF t
<1> HIDE DEF n
<1>4. Read(n) \in Seq(Byte) /\ Len(Read(n)) = n /\ position + n \in 0..Len(buf)
  BY <1>2, <1>3, ReadIsTyped
<1>5. n = ImmediateWidth(t)
  BY DEF n
<1>6. /\ Recorded(t, Read(n)) \in InstructionRecord
      /\ Recorded(t, Read(n)).instruction_bytes = inst.instruction_bytes \o Read(n)
  BY <1>1, <1>4, <1>5, RecordedIsTyped
<1>7. ~LacksModRm(t) => Resolved(t, Read(n)) \in Operand
  BY <1>1, <1>4, <1>5, ResolvedIsTyped
<1> QED
  BY <1>2, <1>4, <1>6, <1>7, Zenon DEF t, n

\* Resolving either operand keeps the types.
LEMMA OperandIsTyped == TypeOK /\ (ResolveOperand1 \/ ResolveOperand2) => TypeOK'
<1> SUFFICES ASSUME TypeOK, ResolveOperand1 \/ ResolveOperand2 PROVE TypeOK'
  OBVIOUS
<1>1. /\ row \in RowIndex /\ modrm \in Byte \union {NoModRm} /\ position \in 0..Len(buf)
      /\ displacement \in SignedDisplacement
      /\ "AttributeError" \in Outcomes /\ "instruction" \in Outcomes /\ "operand2" \in Phases
  BY Zenon DEF TypeOK, Outcomes, Phases
<1>2. CASE ResolveOperand1
  <2> DEFINE n   == ImmediateWidth(Template(1))
             rec == Recorded(Template(1), Read(n))
             op  == Resolved(Template(1), Read(n))
  <2>1. CanRead(n) /\ UNCHANGED << buf, cpu, via, start >>
    BY <1>2 DEF ResolveOperand1, Template
  <2>2. CASE LacksModRm(Template(1))
    <3>1. Return("AttributeError", Blank) /\ position' = position
      BY <1>2, <2>2 DEF ResolveOperand1, ModRmIsNone, Template
    <3> QED
      BY <1>1, <2>1, <3>1, BlankIsTyped, AbandonIsTyped, Zenon
  <2>3. CASE ~LacksModRm(Template(1))
    <3>1. /\ position' = position + n
          /\ inst' = [rec EXCEPT !.operand1 = op]
          /\ pc' = "operand2"
          /\ UNCHANGED << row, modrm, displacement, outcome, result >>
      BY <1>2, <2>3 DEF ResolveOperand1, Template
    <3>2. rec \in InstructionRecord /\ op \in Operand /\ position + n \in 0..Len(buf)
      BY <2>1, <2>3, OperandStep
    <3> HIDE DEF rec, op, n
    <3>3. inst' \in InstructionRecord
      BY <3>1, <3>2 DEF InstructionRecord
    <3> QED
      BY <1>1, <2>1, <3>1, <3>2, <3>3, ProgressIsTyped, Zenon
  <2> QED
    BY <2>2, <2>3
<1>3. CASE ResolveOperand2
  <2> DEFINE n   == ImmediateWidth(Template(2))
             rec == Recorded(Template(2), Read(n))
             op  == Resolved(Template(2), Read(n))
             all == [rec EXCEPT !.operand2 = op, !.is_complete = TRUE]
  <2>1. CanRead(n) /\ UNCHANGED << buf, cpu, via, start >>
    BY <1>3 DEF ResolveOperand2, Template
  <2>2. CASE LacksModRm(Template(2))
    <3>1. Return("AttributeError", Blank) /\ position' = position
      BY <1>3, <2>2 DEF ResolveOperand2, ModRmIsNone, Template
    <3> QED
      BY <1>1, <2>1, <3>1, BlankIsTyped, AbandonIsTyped, Zenon
  <2>3. CASE ~LacksModRm(Template(2))
    <3>1. position' = position + n /\ Return("instruction", all)
      BY <1>3, <2>3 DEF ResolveOperand2, Template
    <3>2. rec \in InstructionRecord /\ op \in Operand /\ position + n \in 0..Len(buf)
      BY <2>1, <2>3, OperandStep
    <3> HIDE DEF rec, op, n
    <3>3. all \in InstructionRecord
      BY <3>2 DEF InstructionRecord
    <3> QED
      BY <1>1, <2>1, <3>1, <3>2, <3>3, AbandonIsTyped, Zenon
  <2> QED
    BY <2>2, <2>3
<1> QED
  BY <1>2, <1>3

\* Running out, in whichever phase, leaves the cursor at the end of the input.
LEMMA RunningOut ==
  ASSUME TypeOK, RunsOutInPhase
  PROVE  /\ pc # "idle"
         /\ position' = Len(buf)
         /\ Return(EndOfInput, Blank)
         /\ UNCHANGED << buf, cpu, via, start >>
BY DEF RunsOutInPhase, RunsOut

\* A read past the end of the input keeps the types.
LEMMA RunsOutIsTyped == TypeOK /\ RunsOutInPhase => TypeOK'
<1> SUFFICES ASSUME TypeOK, RunsOutInPhase PROVE TypeOK'
  OBVIOUS
<1>1. position' \in 0..Len(buf)
  BY RunningOut, Cursor, InInput
<1> QED
  BY <1>1, RunningOut, EndOfInputIsTyped, BlankIsTyped, AbandonIsTyped, Zenon

\* A step that changes nothing keeps the types.
LEMMA StutterIsTyped == TypeOK /\ UNCHANGED vars => TypeOK'
BY Zenon DEF TypeOK, vars, local

\* The cursor never leaves the input, the row never leaves the table, and the
\* records hold bytes, whatever the calls and wherever a decode is cut off.
THEOREM TypeCorrect == Spec => []TypeOK
<1>1. Init => TypeOK
  BY InitIsTyped
<1>2. TypeOK /\ [Next]_vars => TypeOK'
  BY CallIsTyped, PrefixOrOpcodeIsTyped, ModRmIsTyped, OperandIsTyped, RunsOutIsTyped,
     StutterIsTyped, Zenon DEF Next, DecodeStep
<1> QED
  BY <1>1, <1>2, PTL DEF Spec

-----------------------------------------------------------------------------
(* The bytes of an instruction are the bytes the cursor passed.            *)
(*                                                                         *)
(* BytesAreConsumed is not inductive: a decode starts from whatever inst   *)
(* holds while idle, and what Current denotes depends on outcome being     *)
(* clear during a decode.  Bookkeeping adds both, and the order of start   *)
(* and position that makes the difference of the two a length.             *)

IdleIsBlank ==
  pc = "idle" => inst = Blank /\ row = 0 /\ modrm = NoModRm /\ displacement = 0

AnswerComesLast == pc # "idle" => outcome = "none"

RecordIsSlice ==
  /\ pc # "idle" => IsSlice(inst.instruction_bytes, buf, start, position)
  /\ outcome = "instruction" => IsSlice(result.instruction_bytes, buf, start, position)

Bookkeeping ==
  /\ start <= position
  /\ IdleIsBlank
  /\ AnswerComesLast
  /\ RecordIsSlice

\* A new decoder has an empty record.
LEMMA InitBookkeeping == Init => Bookkeeping
<1> SUFFICES ASSUME Init PROVE Bookkeeping
  OBVIOUS
<1>1. start <= position
  BY DEF Init
<1>2. IdleIsBlank /\ AnswerComesLast /\ RecordIsSlice
  BY DEF Init, IdleIsBlank, AnswerComesLast, RecordIsSlice
<1> QED
  BY <1>1, <1>2, Zenon DEF Bookkeeping

\* A call that answers anything but an instruction keeps no bytes to account for.
LEMMA ReturnBookkeeping ==
  ASSUME NEW o, NEW i, Return(o, i), start' <= position',
         o = "instruction" => IsSlice(i.instruction_bytes, buf', start', position')
  PROVE  Bookkeeping'
BY DEF Return, Bookkeeping, IdleIsBlank, AnswerComesLast, RecordIsSlice

\* The calls made between decodes drop the record, or start one where the cursor is.
LEMMA CallBookkeeping == TypeOK /\ Bookkeeping /\ Call => Bookkeeping'
<1> SUFFICES ASSUME TypeOK, Bookkeeping, Call PROVE Bookkeeping'
  OBVIOUS
<1>1. ASSUME NEW p \in -1..(Len(buf) + 1), SetPosition(p)
      PROVE  Bookkeeping'
  <2> DEFINE o == IF p \in 0..Len(buf) THEN "none" ELSE "ValueError"
  <2>1. Return(o, Blank) /\ start' = 0 /\ o # "instruction"
    BY <1>1 DEF SetPosition, Answer
  <2>2. position' \in 0..Len(buf)
    BY <1>1 DEF SetPosition, TypeOK
  <2>3. start' <= position'
    BY <2>1, <2>2, Cursor
  <2> QED
    BY <2>1, <2>3, ReturnBookkeeping, Zenon
<1>2. CASE Rewind
  <2>1. Return("none", Blank) /\ start' = 0 /\ position' = 0
    BY <1>2 DEF Rewind, Answer
  <2>2. start' <= position'
    BY <2>1
  <2> QED
    BY <2>1, <2>2, ReturnBookkeeping
<1>3. ASSUME NEW c \in CpuType, SetOptions(c)
      PROVE  Bookkeeping'
  <2>1. Return("none", Blank) /\ start' = 0 /\ position' = position
    BY <1>3 DEF SetOptions, Answer
  <2>2. start' <= position'
    BY <2>1, Cursor
  <2> QED
    BY <2>1, <2>2, ReturnBookkeeping
<1>4. ASSUME NEW v \in {"decode_next", "__next__"}, DecodeNext(v)
      PROVE  Bookkeeping'
  <2>1. start' = position /\ position' = position /\ buf' = buf /\ pc = "idle"
    BY <1>4 DEF DecodeNext
  <2>2. start' <= position'
    BY <2>1, Cursor
  <2>3. CASE cpu = "Intel808x"
    <3>1. pc' = "opcode" /\ outcome' = "none" /\ inst' = inst
      BY <1>4, <2>3 DEF DecodeNext, local
    <3>2. inst' = Blank
      BY <2>1, <3>1 DEF Bookkeeping, IdleIsBlank
    <3>3. IsSlice(inst'.instruction_bytes, buf', start', position')
      BY <2>1, <3>2, Cursor, SliceStarts DEF Blank
    <3> QED
      BY <2>2, <3>1, <3>3 DEF Bookkeeping, IdleIsBlank, AnswerComesLast, RecordIsSlice
  <2>4. CASE cpu # "Intel808x"
    BY <1>4, <2>2, <2>4, ReturnBookkeeping DEF DecodeNext
  <2> QED
    BY <2>3, <2>4
<1> QED
  BY <1>1, <1>2, <1>3, <1>4, Zenon DEF Call

\* A decode step that goes on: its outcome stays clear and its bytes a slice.
LEMMA ProgressBookkeeping ==
  ASSUME Bookkeeping, pc # "idle", pc' # "idle", UNCHANGED << start, outcome >>,
         start' <= position', IsSlice(inst'.instruction_bytes, buf', start', position')
  PROVE  Bookkeeping'
BY DEF Bookkeeping, IdleIsBlank, AnswerComesLast, RecordIsSlice

\* A read appended to a record of the bytes passed so far.
LEMMA ReadExtendsRecord ==
  ASSUME TypeOK, Bookkeeping, pc # "idle", NEW n \in Nat, CanRead(n)
  PROVE  /\ IsSlice(inst.instruction_bytes \o Read(n), buf, start, position + n)
         /\ start <= position + n
<1>1. IsSlice(Read(n), buf, position, position + n)
  BY ReadIsTyped
<1>2. IsSlice(inst.instruction_bytes, buf, start, position) /\ start <= position
  BY DEF Bookkeeping, RecordIsSlice
<1>3. position + n \in Nat /\ position <= position + n /\ start <= position + n
  BY <1>2, Cursor
<1> QED
  BY <1>1, <1>2, <1>3, Cursor, SliceExtends

\* The prefix loop appends the byte it has just passed.
LEMMA PrefixOrOpcodeBookkeeping == TypeOK /\ Bookkeeping /\ ReadPrefixOrOpcode => Bookkeeping'
<1> SUFFICES ASSUME TypeOK, Bookkeeping, ReadPrefixOrOpcode PROVE Bookkeeping'
  OBVIOUS
<1>1. /\ pc = "opcode" /\ pc' # "idle" /\ CanRead(1) /\ position' = position + 1
      /\ UNCHANGED << buf, start, outcome >>
      /\ inst'.instruction_bytes = Append(inst.instruction_bytes, buf[position + 1])
  <2>1. inst \in InstructionRecord
    BY Zenon DEF TypeOK
  <2> QED
    BY <2>1 DEF ReadPrefixOrOpcode, InstructionRecord
<1>2. IsSlice(inst.instruction_bytes, buf, start, position) /\ start <= position
  BY <1>1 DEF Bookkeeping, RecordIsSlice
<1>3. IsSlice(Append(inst.instruction_bytes, buf[position + 1]), buf, start, position + 1)
  BY <1>1, <1>2, Cursor, SliceAppends DEF CanRead
<1>4. start <= position + 1
  BY <1>2, Cursor
<1> QED
  BY <1>1, <1>3, <1>4, ProgressBookkeeping

\* Reading the ModRM byte appends every byte it passes.
LEMMA ModRmBookkeeping == TypeOK /\ Bookkeeping /\ ReadModRm => Bookkeeping'
<1> SUFFICES ASSUME TypeOK, Bookkeeping, ReadModRm PROVE Bookkeeping'
  OBVIOUS
<1>1. pc = "modrm" /\ pc' = "operand1"
  BY DEF ReadModRm
<1>2. inst'.instruction_bytes = inst.instruction_bytes \o Read(ModRmBytes)
  <2>1. inst \in InstructionRecord
    BY Zenon DEF TypeOK
  <2> QED
    BY <2>1, ModRmStep DEF InstructionRecord
<1>3. /\ IsSlice(inst.instruction_bytes \o Read(ModRmBytes), buf, start, position + ModRmBytes)
      /\ start <= position + ModRmBytes
  BY <1>1, ModRmStep, ReadExtendsRecord
<1>4. position' = position + ModRmBytes /\ UNCHANGED << buf, start, outcome >>
  BY ModRmStep
<1> QED
  BY <1>1, <1>2, <1>3, <1>4, ProgressBookkeeping

\* Resolving an operand appends its bytes as the input has them, although it encodes a number.
LEMMA OperandBookkeeping ==
  TypeOK /\ Bookkeeping /\ (ResolveOperand1 \/ ResolveOperand2) => Bookkeeping'
<1> SUFFICES ASSUME TypeOK, Bookkeeping, ResolveOperand1 \/ ResolveOperand2
             PROVE  Bookkeeping'
  OBVIOUS
<1>1. CASE ResolveOperand1
  <2> DEFINE n   == ImmediateWidth(Template(1))
             rec == Recorded(Template(1), Read(n))
             op  == Resolved(Template(1), Read(n))
  <2>1. CanRead(n) /\ UNCHANGED << buf, start >> /\ pc = "operand1"
    BY <1>1 DEF ResolveOperand1, Template
  <2>2. CASE LacksModRm(Template(1))
    <3>1. Return("AttributeError", Blank) /\ position' = position
      BY <1>1, <2>2 DEF ResolveOperand1, ModRmIsNone, Template
    <3>2. start' <= position'
      BY <2>1, <3>1 DEF Bookkeeping
    <3> QED
      BY <3>1, <3>2, ReturnBookkeeping
  <2>3. CASE ~LacksModRm(Template(1))
    <3>1. /\ position' = position + n
          /\ inst' = [rec EXCEPT !.operand1 = op]
          /\ pc' = "operand2"
          /\ UNCHANGED outcome
      BY <1>1, <2>3 DEF ResolveOperand1, Template
    <3>2. /\ n \in Nat /\ rec \in InstructionRecord
          /\ rec.instruction_bytes = inst.instruction_bytes \o Read(n)
      BY <2>1, OperandStep
    <3> HIDE DEF rec, op, n
    <3>3. inst'.instruction_bytes = inst.instruction_bytes \o Read(n)
      BY <3>1, <3>2 DEF InstructionRecord
    <3>4. /\ IsSlice(inst.instruction_bytes \o Read(n), buf, start, position + n)
          /\ start <= position + n
      BY <2>1, <3>2, ReadExtendsRecord
    <3> QED
      BY <2>1, <3>1, <3>3, <3>4, ProgressBookkeeping
  <2> QED
    BY <2>2, <2>3
<1>2. CASE ResolveOperand2
  <2> DEFINE n   == ImmediateWidth(Template(2))
             rec == Recorded(Template(2), Read(n))
             op  == Resolved(Template(2), Read(n))
             all == [rec EXCEPT !.operand2 = op, !.is_complete = TRUE]
  <2>1. CanRead(n) /\ UNCHANGED << buf, start >> /\ pc = "operand2"
    BY <1>2 DEF ResolveOperand2, Template
  <2>2. CASE LacksModRm(Template(2))
    <3>1. Return("AttributeError", Blank) /\ position' = position
      BY <1>2, <2>2 DEF ResolveOperand2, ModRmIsNone, Template
    <3>2. start' <= position'
      BY <2>1, <3>1 DEF Bookkeeping
    <3> QED
      BY <3>1, <3>2, ReturnBookkeeping
  <2>3. CASE ~LacksModRm(Template(2))
    <3>1. position' = position + n /\ Return("instruction", all)
      BY <1>2, <2>3 DEF ResolveOperand2, Template
    <3>2. /\ n \in Nat /\ rec \in InstructionRecord
          /\ rec.instruction_bytes = inst.instruction_bytes \o Read(n)
      BY <2>1, OperandStep
    <3> HIDE DEF rec, op, n
    <3>3. all.instruction_bytes = inst.instruction_bytes \o Read(n)
      BY <3>2 DEF InstructionRecord
    <3>4. /\ IsSlice(inst.instruction_bytes \o Read(n), buf, start, position + n)
          /\ start <= position + n
      BY <2>1, <3>2, ReadExtendsRecord
    <3> HIDE DEF all
    <3>5. start' <= position' /\ IsSlice(all.instruction_bytes, buf', start', position')
      BY <2>1, <3>1, <3>3, <3>4
    <3> QED
      BY <3>1, <3>5, ReturnBookkeeping
  <2> QED
    BY <2>2, <2>3
<1> QED
  BY <1>1, <1>2

\* A read past the end of the input drops the record.
LEMMA RunsOutBookkeeping == TypeOK /\ Bookkeeping /\ RunsOutInPhase => Bookkeeping'
<1> SUFFICES ASSUME TypeOK, Bookkeeping, RunsOutInPhase PROVE Bookkeeping'
  OBVIOUS
<1>1. position' = Len(buf) /\ Return(EndOfInput, Blank) /\ start' = start
  BY RunningOut
<1>2. start' <= position' /\ EndOfInput # "instruction"
  BY <1>1, Cursor DEF EndOfInput
<1> QED
  BY <1>1, <1>2, ReturnBookkeeping

\* A step that changes nothing keeps the record.
LEMMA StutterBookkeeping == Bookkeeping /\ UNCHANGED vars => Bookkeeping'
BY DEF Bookkeeping, IdleIsBlank, AnswerComesLast, RecordIsSlice, vars, local

\* In every reachable state the record of a decode is the stretch of input it has passed
\* (Intel808x.decode and the readers it calls).
THEOREM BookkeepingHolds == Spec => []Bookkeeping
<1>1. Init => Bookkeeping
  BY InitBookkeeping
<1>2. TypeOK /\ Bookkeeping /\ [Next]_vars => Bookkeeping'
  BY CallBookkeeping, PrefixOrOpcodeBookkeeping, ModRmBookkeeping, OperandBookkeeping,
     RunsOutBookkeeping, StutterBookkeeping, Zenon DEF Next, DecodeStep
<1> QED
  BY <1>1, <1>2, TypeCorrect, PTL DEF Spec

\* instruction_bytes is authoritative for length: for every buffer and every
\* table, the bytes recorded are the bytes of the input from where the decode
\* was called to where the cursor stands.
THEOREM BytesConsumed == Spec => []BytesAreConsumed
<1>1. TypeOK /\ Bookkeeping => BytesAreConsumed
  <2> SUFFICES ASSUME TypeOK, Bookkeeping, pc # "idle" \/ outcome = "instruction"
               PROVE  IsSlice(Current.instruction_bytes, buf, start, position)
    BY DEF BytesAreConsumed, IsSlice
  <2> QED
    BY DEF Bookkeeping, AnswerComesLast, RecordIsSlice, Current
<1> QED
  BY <1>1, TypeCorrect, BookkeepingHolds, PTL

-----------------------------------------------------------------------------
(* The end of the input.                                                   *)

\* The calls and the decode steps that read what they wanted report no end.
LEMMA OthersReportNoEnd ==
  ASSUME Next, ~RunsOutInPhase
  PROVE  pc' # "idle" \/ outcome' \notin {"Eof", "StopIteration", "UnexpectedEof"}
<1>1. CASE Call
  BY <1>1 DEF Call, SetPosition, Rewind, SetOptions, DecodeNext, Answer, Return
<1>2. CASE ReadPrefixOrOpcode
  BY <1>2 DEF ReadPrefixOrOpcode
<1>3. CASE ReadModRm
  BY <1>3 DEF ReadModRm
<1>4. CASE ResolveOperand1
  BY <1>4 DEF ResolveOperand1, ModRmIsNone, Return
<1>5. CASE ResolveOperand2
  BY <1>5 DEF ResolveOperand2, ModRmIsNone, Return
<1> QED
  BY <1>1, <1>2, <1>3, <1>4, <1>5 DEF Next, DecodeStep

\* Eof and StopIteration say that the call began at the end of the input,
\* UnexpectedEof that it began before it; after all three the cursor is there.
THEOREM EofClassified == Spec => []EofIsClassified
<1>1. Init => EofIsClassified
  BY DEF Init, EofIsClassified
<1>2. TypeOK /\ EofIsClassified /\ [Next]_vars => EofIsClassified'
  <2> SUFFICES ASSUME TypeOK, EofIsClassified, [Next]_vars PROVE EofIsClassified'
    OBVIOUS
  <2>1. CASE RunsOutInPhase
    <3>1. /\ position' = Len(buf) /\ buf' = buf /\ start' = start
          /\ outcome' = EndOfInput
      BY <2>1, RunningOut DEF Return
    <3>2. /\ EndOfInput \in {"Eof", "StopIteration"} => start = Len(buf)
          /\ EndOfInput = "UnexpectedEof" => start < Len(buf)
      BY Cursor DEF EndOfInput
    <3> QED
      BY <3>1, <3>2 DEF EofIsClassified
  <2>2. CASE Next /\ ~RunsOutInPhase
    BY <2>2, OthersReportNoEnd DEF EofIsClassified
  <2>3. CASE UNCHANGED vars
    BY <2>3 DEF EofIsClassified, vars
  <2> QED
    BY <2>1, <2>2, <2>3
<1> QED
  BY <1>1, <1>2, TypeCorrect, PTL DEF Spec

-----------------------------------------------------------------------------
(* Operands and the ModRM byte they are built from.                        *)

\* What the table owes the decoder, which checks it nowhere: a row that is
\* reached without a ModRM byte has no operand that comes from one.
TableIsConsistent ==
  \A i \in Byte : ~WantsModRm(i) =>
    \A k \in {1, 2} : DECODE[i].operands[k] \notin ModRmTemplates

\* Between the phases: no ModRM byte is held before one is read, and an
\* operand phase is reached without one only on a base row that wants none.
ModRmIsHeld ==
  /\ OperandsHaveTheirModRm
  /\ pc \in {"idle", "opcode"} => modrm = NoModRm
  /\ pc \in {"operand1", "operand2"} /\ modrm = NoModRm => row \in Byte /\ ~WantsModRm(row)

\* None is no byte.
LEMMA NoModRmIsNoByte == NoModRm \notin Byte
BY ByteRange DEF NoModRm

\* On a consistent table no decode asks a missing ModRM byte for an operand.
THEOREM OperandsFindTheirModRm ==
  ASSUME TableIsConsistent
  PROVE  Spec => []OperandsHaveTheirModRm
<1>1. Init => ModRmIsHeld
  BY DEF Init, ModRmIsHeld, OperandsHaveTheirModRm
<1>2. ASSUME TypeOK, Bookkeeping, ModRmIsHeld, [Next]_vars
      PROVE  ModRmIsHeld'
  <2> USE <1>2
  <2>1. CASE Call
    BY <2>1 DEF Call, SetPosition, Rewind, SetOptions, DecodeNext, Answer, Return, local,
                Bookkeeping, IdleIsBlank, ModRmIsHeld, OperandsHaveTheirModRm
  <2>2. CASE ReadPrefixOrOpcode
    <3>1. CanRead(1)
      BY <2>2 DEF ReadPrefixOrOpcode
    <3>2. buf[position + 1] \in Byte
      BY <3>1, ReadIsTyped
    <3> QED
      BY <2>2, <3>2 DEF ReadPrefixOrOpcode, ModRmIsHeld, OperandsHaveTheirModRm
  <2>3. CASE ReadModRm
    <3>1. modrm' = buf[position + 1] /\ pc' = "operand1" /\ outcome' = outcome
      BY <2>3 DEF ReadModRm
    <3>2. modrm' # NoModRm
      BY <2>3, <3>1, ModRmStep, NoModRmIsNoByte
    <3> QED
      BY <3>1, <3>2 DEF ModRmIsHeld, OperandsHaveTheirModRm
  <2>4. ASSUME NEW k \in {1, 2}, pc \in {"operand1", "operand2"}
        PROVE  ~LacksModRm(Template(k))
    BY <2>4 DEF LacksModRm, Template, ModRmIsHeld, TableIsConsistent
  <2>5. CASE ResolveOperand1
    <3>1. ~LacksModRm(DECODE[row].operands[1])
      BY <2>4, <2>5 DEF ResolveOperand1, Template
    <3> QED
      BY <2>5, <3>1 DEF ResolveOperand1, ModRmIsHeld, OperandsHaveTheirModRm
  <2>6. CASE ResolveOperand2
    <3>1. ~LacksModRm(DECODE[row].operands[2])
      BY <2>4, <2>6 DEF ResolveOperand2, Template
    <3> QED
      BY <2>6, <3>1 DEF ResolveOperand2, Return, ModRmIsHeld, OperandsHaveTheirModRm
  <2>7. CASE RunsOutInPhase
    <3>1. Return(EndOfInput, Blank) /\ EndOfInput # "AttributeError"
      BY <2>7, RunningOut DEF EndOfInput
    <3> QED
      BY <3>1 DEF Return, ModRmIsHeld, OperandsHaveTheirModRm
  <2>8. CASE UNCHANGED vars
    BY <2>8 DEF vars, local, ModRmIsHeld, OperandsHaveTheirModRm
  <2> QED
    BY <2>1, <2>2, <2>3, <2>5, <2>6, <2>7, <2>8 DEF Next, DecodeStep
<1>3. ModRmIsHeld => OperandsHaveTheirModRm
  BY DEF ModRmIsHeld
<1> QED
  BY <1>1, <1>2, <1>3, TypeCorrect, BookkeepingHolds, PTL DEF Spec

-----------------------------------------------------------------------------
(* The parts of an instruction.                                            *)
(*                                                                         *)
(* PartsTileInstruction speaks of what is returned.  PartsInPlace says how *)
(* much of the layout stands at each phase: nothing but prefixes, then the *)
(* opcode, then all that comes before the immediates.                      *)

\* Where the immediates of an instruction begin.
ImmediatesAt(i) ==
  IF i.has_modrm THEN i.modrm_offset + 1 + i.displacement_size ELSE i.opcode_offset + 1

Tiled(i) ==
  /\ i.prefix_ct = Len(i.prefix_bytes)
  /\ i.opcode_offset = i.prefix_ct
  /\ i.has_modrm => i.modrm_offset = i.opcode_offset + 1
  /\ ImmediatesAt(i) <= Len(i.instruction_bytes)
  /\ IsSlice(i.prefix_bytes, i.instruction_bytes, 0, i.prefix_ct)
  /\ i.instruction_bytes[i.opcode_offset + 1] = i.opcode
  /\ IsSlice(i.immediate_bytes, i.instruction_bytes, ImmediatesAt(i), Len(i.instruction_bytes))

PartsInPlace ==
  /\ pc = "opcode" => /\ inst.prefix_bytes = inst.instruction_bytes
                      /\ inst.immediate_bytes = << >>
                      /\ inst.has_modrm = FALSE
  /\ pc = "modrm" => /\ Tiled(inst)
                     /\ inst.has_modrm = FALSE
                     /\ inst.immediate_bytes = << >>
                     /\ Len(inst.instruction_bytes) = inst.opcode_offset + 1
  /\ pc \in {"operand1", "operand2"} => Tiled(inst)
  /\ Returned => Tiled(result)

\* The fields of a record as their types have them.
LEMMA FieldsAreTyped ==
  ASSUME NEW i \in InstructionRecord
  PROVE  /\ i.instruction_bytes \in Seq(Byte) /\ i.prefix_bytes \in Seq(Byte)
         /\ i.immediate_bytes \in Seq(Byte)
         /\ i.prefix_ct \in Nat /\ i.opcode_offset \in Nat /\ i.modrm_offset \in Nat
         /\ i.displacement_size \in Nat /\ i.displacement_size <= 2
         /\ i.has_modrm \in BOOLEAN
         /\ ImmediatesAt(i) \in Nat
         /\ Len(i.instruction_bytes) \in Nat
<1>1. /\ i.instruction_bytes \in Seq(Byte) /\ i.prefix_bytes \in Seq(Byte)
      /\ i.immediate_bytes \in Seq(Byte)
      /\ i.prefix_ct \in Nat /\ i.opcode_offset \in Nat /\ i.modrm_offset \in Nat
      /\ i.displacement_size \in 0..2
      /\ i.has_modrm \in BOOLEAN
  BY DEF InstructionRecord
<1>2. /\ i.modrm_offset + 1 + i.displacement_size \in Nat /\ i.opcode_offset + 1 \in Nat
      /\ i.displacement_size \in Nat /\ i.displacement_size <= 2
      /\ Len(i.instruction_bytes) \in Nat
  <2>1. \A m, d, o : m \in Nat /\ d \in 0..2 /\ o \in Nat =>
          m + 1 + d \in Nat /\ d \in Nat /\ d <= 2 /\ o + 1 \in Nat
    OBVIOUS
  <2>2. Len(i.instruction_bytes) \in Nat
    BY <1>1, LenProperties
  <2> QED
    BY <1>1, <2>1, <2>2, Zenon
<1>3. ImmediatesAt(i) \in Nat
  BY <1>2, Zenon DEF ImmediatesAt
<1> QED
  BY <1>1, <1>2, <1>3, Zenon

\* The immediates begin behind the ModRM byte and its displacement, or behind
\* the opcode.
LEMMA ImmediatesCases ==
  ASSUME NEW i
  PROVE  /\ i.has_modrm => ImmediatesAt(i) = i.modrm_offset + 1 + i.displacement_size
         /\ ~i.has_modrm => ImmediatesAt(i) = i.opcode_offset + 1
BY Zenon DEF ImmediatesAt

\* A stretch of a sequence is the same stretch of a longer one.
LEMMA SliceOfLonger ==
  ASSUME NEW s \in Seq(Byte), NEW r \in Seq(Byte), NEW t, NEW p \in Nat, NEW q \in Nat,
         p <= q, q <= Len(s), IsSlice(t, s, p, q)
  PROVE  IsSlice(t, s \o r, p, q)
<1>1. t \in Seq(Byte) /\ Len(t) = q - p /\ \A k \in 1..Len(t) : t[k] = s[p + k]
  BY DEF IsSlice
<1>2. \A k \in 1..(Len(s) + Len(r)) :
        (s \o r)[k] = IF k <= Len(s) THEN s[k] ELSE r[k - Len(s)]
  BY ConcatProperties
<1>3. ASSUME NEW k \in 1..Len(t) PROVE t[k] = (s \o r)[p + k]
  <2>1. p + k \in 1..(Len(s) + Len(r)) /\ p + k <= Len(s)
    BY <1>1
  <2>2. (s \o r)[p + k] = s[p + k]
    BY <1>2, <2>1
  <2> QED
    BY <1>1, <2>2
<1> QED
  BY <1>1, <1>3 DEF IsSlice

\* What an operand's bytes do not change.
SameHead(i, j) ==
  /\ j.prefix_bytes = i.prefix_bytes /\ j.prefix_ct = i.prefix_ct
  /\ j.opcode = i.opcode /\ j.opcode_offset = i.opcode_offset
  /\ j.has_modrm = i.has_modrm /\ j.modrm_offset = i.modrm_offset
  /\ j.displacement_size = i.displacement_size

\* Bytes appended to the instruction and to its immediates keep it tiled.
LEMMA TilingWidens ==
  ASSUME NEW i \in InstructionRecord, Tiled(i), NEW r \in Seq(Byte), NEW j, SameHead(i, j),
         j.instruction_bytes = i.instruction_bytes \o r,
         j.immediate_bytes = i.immediate_bytes \o r
  PROVE  Tiled(j)
<1> DEFINE s == i.instruction_bytes
           m == i.immediate_bytes
           a == ImmediatesAt(i)
           c == i.prefix_ct
<1>1. /\ s \in Seq(Byte) /\ m \in Seq(Byte) /\ a \in Nat /\ c \in Nat /\ Len(s) \in Nat
      /\ i.opcode_offset \in Nat /\ i.displacement_size \in Nat /\ i.modrm_offset \in Nat
  BY FieldsAreTyped
<1>2. a <= Len(s) /\ IsSlice(m, s, a, Len(s)) /\ IsSlice(i.prefix_bytes, s, 0, c)
  BY DEF Tiled
<1>3. ImmediatesAt(j) = a
  BY DEF SameHead, ImmediatesAt
<1>4. i.opcode_offset = c /\ c + 1 <= a
  <2>1. i.opcode_offset = c /\ (i.has_modrm => i.modrm_offset = i.opcode_offset + 1)
    BY Zenon DEF Tiled
  <2>2. CASE i.has_modrm
    <3>1. i.modrm_offset = c + 1 /\ a = i.modrm_offset + 1 + i.displacement_size
      BY <2>1, <2>2, ImmediatesCases, Zenon
    <3> HIDE DEF a, c
    <3> QED
      BY <1>1, <2>1, <3>1
  <2>3. CASE ~i.has_modrm
    <3>1. a = c + 1
      BY <2>1, <2>3, ImmediatesCases, Zenon
    <3> HIDE DEF a, c
    <3> QED
      BY <1>1, <2>1, <3>1
  <2> QED
    BY <2>2, <2>3
<1> HIDE DEF s, m, a, c
<1>5. /\ s \o r \in Seq(Byte) /\ Len(s \o r) = Len(s) + Len(r) /\ Len(r) \in Nat
      /\ \A k \in 1..(Len(s) + Len(r)) :
           (s \o r)[k] = IF k <= Len(s) THEN s[k] ELSE r[k - Len(s)]
  BY <1>1, ConcatProperties
<1>6. IsSlice(i.prefix_bytes, s \o r, 0, c)
  BY <1>1, <1>2, <1>4, SliceOfLonger
<1>7. (s \o r)[c + 1] = s[c + 1]
  BY <1>1, <1>2, <1>4, <1>5
<1>8. IsSlice(m \o r, s \o r, a, Len(s) + Len(r))
  <2>1. IsSlice(m, s \o r, a, Len(s))
    BY <1>1, <1>2, SliceOfLonger
  <2>2. IsSlice(r, s \o r, Len(s), Len(s) + Len(r))
    BY <1>1, <1>5 DEF IsSlice
  <2>3. Len(s) + Len(r) \in Nat /\ Len(s) <= Len(s) + Len(r)
    BY <1>1, <1>5
  <2> QED
    BY <1>1, <1>2, <1>5, <2>1, <2>2, <2>3, SliceExtends
<1>9. a <= Len(s \o r)
  BY <1>1, <1>2, <1>5
<1> QED
  BY <1>3, <1>4, <1>5, <1>6, <1>7, <1>8, <1>9 DEF SameHead, Tiled, s, m, c

LEMMA PartsInit == Init => PartsInPlace
BY DEF Init, PartsInPlace, Returned

\* A step that returns anything but an instruction says nothing of its parts.
LEMMA PartsReturn ==
  ASSUME NEW o, NEW i, Return(o, i), o = "instruction" => Tiled(i)
  PROVE  PartsInPlace'
BY DEF Return, PartsInPlace, Returned

LEMMA PartsCall == TypeOK /\ Bookkeeping /\ Call => PartsInPlace'
<1> SUFFICES ASSUME TypeOK, Bookkeeping, Call PROVE PartsInPlace'
  OBVIOUS
<1>1. ASSUME NEW o, o # "instruction", Return(o, Blank) PROVE PartsInPlace'
  BY <1>1, PartsReturn
<1>2. ASSUME NEW p \in -1..(Len(buf) + 1), SetPosition(p) PROVE PartsInPlace'
  BY <1>1, <1>2 DEF SetPosition, Answer
<1>3. CASE Rewind
  BY <1>1, <1>3 DEF Rewind, Answer
<1>4. ASSUME NEW c \in CpuType, SetOptions(c) PROVE PartsInPlace'
  BY <1>1, <1>4 DEF SetOptions, Answer
<1>5. ASSUME NEW v \in {"decode_next", "__next__"}, DecodeNext(v) PROVE PartsInPlace'
  <2>1. CASE cpu = "Intel808x"
    <3>1. pc = "idle" /\ pc' = "opcode" /\ inst' = inst
      BY <1>5, <2>1 DEF DecodeNext, local
    <3>2. inst' = Blank
      BY <3>1 DEF Bookkeeping, IdleIsBlank
    <3> QED
      BY <3>1, <3>2 DEF PartsInPlace, Returned, Blank
  <2>2. CASE cpu # "Intel808x"
    BY <1>1, <1>5, <2>2 DEF DecodeNext
  <2> QED
    BY <2>1, <2>2
<1> QED
  BY <1>2, <1>3, <1>4, <1>5, Zenon DEF Call

\* The byte that ends the prefix loop is the opcode, right behind the prefixes.
LEMMA PartsPrefixOrOpcode == TypeOK /\ PartsInPlace /\ ReadPrefixOrOpcode => PartsInPlace'
<1> SUFFICES ASSUME TypeOK, PartsInPlace, ReadPrefixOrOpcode PROVE PartsInPlace'
  OBVIOUS
<1> DEFINE b     == buf[position + 1]
           s     == inst.instruction_bytes
           taken == Append(s, b)
<1>1. pc = "opcode" /\ CanRead(1)
  BY DEF ReadPrefixOrOpcode
<1>2. b \in Byte
  BY <1>1, ReadIsTyped
<1>3. inst \in InstructionRecord
  BY Zenon DEF TypeOK
<1>4. /\ s \in Seq(Byte) /\ inst.prefix_bytes = s /\ inst.immediate_bytes = << >>
      /\ inst.has_modrm = FALSE
  BY <1>1, <1>3, FieldsAreTyped DEF PartsInPlace
<1>5. CASE b \in PrefixFlags
  <2>1. /\ inst' = [inst EXCEPT !.instruction_bytes = taken,
                                !.prefix_bytes = Append(inst.prefix_bytes, b)]
        /\ pc' = "opcode"
    BY <1>1, <1>5 DEF ReadPrefixOrOpcode
  <2> HIDE DEF b, taken
  <2>2. /\ inst'.instruction_bytes = taken /\ inst'.prefix_bytes = Append(inst.prefix_bytes, b)
        /\ inst'.immediate_bytes = inst.immediate_bytes /\ inst'.has_modrm = inst.has_modrm
    BY <1>3, <2>1 DEF InstructionRecord
  <2> QED
    BY <1>4, <2>1, <2>2 DEF PartsInPlace, Returned, taken
<1>6. CASE b \notin PrefixFlags
  <2>1. /\ inst' = [inst EXCEPT !.instruction_bytes = taken,
                                !.prefix_ct = Len(inst.prefix_bytes),
                                !.opcode_offset = Len(taken) - 1,
                                !.opcode = b]
        /\ pc' \in {"modrm", "operand1"}
    BY <1>6 DEF ReadPrefixOrOpcode
  <2>2. /\ taken \in Seq(Byte) /\ Len(taken) = Len(s) + 1 /\ Len(s) \in Nat
        /\ \A k \in 1..Len(s) : taken[k] = s[k]
        /\ taken[Len(s) + 1] = b
    <3> HIDE DEF b, s
    <3> QED
      BY <1>2, <1>4
  <2> HIDE DEF b, s, taken
  <2>3. /\ inst'.instruction_bytes = taken /\ inst'.prefix_bytes = s
        /\ inst'.prefix_ct = Len(s) /\ inst'.opcode_offset = Len(taken) - 1
        /\ inst'.opcode = b
        /\ inst'.immediate_bytes = << >> /\ inst'.has_modrm = FALSE
    BY <1>3, <1>4, <2>1 DEF InstructionRecord
  <2>4. inst'.opcode_offset = Len(s) /\ ImmediatesAt(inst') = Len(taken)
    <3>1. Len(taken) - 1 = Len(s) /\ Len(s) + 1 = Len(taken)
      BY <2>2
    <3>2. ImmediatesAt(inst') = inst'.opcode_offset + 1
      BY <2>3, ImmediatesCases
    <3> QED
      BY <2>3, <3>1, <3>2
  <2>5. IsSlice(s, taken, 0, Len(s))
    BY <1>4, <2>2 DEF IsSlice
  <2>6. IsSlice(<< >>, taken, Len(taken), Len(taken))
    BY <2>2, SliceStarts
  <2>7. Tiled(inst') /\ inst'.has_modrm = FALSE /\ inst'.immediate_bytes = << >>
        /\ Len(inst'.instruction_bytes) = inst'.opcode_offset + 1
    BY <2>2, <2>3, <2>4, <2>5, <2>6 DEF Tiled
  <2> QED
    BY <2>1, <2>7 DEF PartsInPlace, Returned
<1> QED
  BY <1>5, <1>6

\* The ModRM byte stands right behind the opcode, its displacement behind it.
LEMMA PartsModRm == TypeOK /\ PartsInPlace /\ ReadModRm => PartsInPlace'
<1> SUFFICES ASSUME TypeOK, PartsInPlace, ReadModRm PROVE PartsInPlace'
  OBVIOUS
<1> DEFINE s == inst.instruction_bytes
           r == Read(ModRmBytes)
           n == ModRmBytes
<1>1. pc = "modrm" /\ pc' = "operand1"
  BY DEF ReadModRm
<1>2. inst \in InstructionRecord
  BY Zenon DEF TypeOK
<1>3. /\ Tiled(inst) /\ inst.immediate_bytes = << >> /\ inst.has_modrm = FALSE
      /\ Len(s) = inst.opcode_offset + 1
  BY <1>1 DEF PartsInPlace
<1>4. n \in Nat /\ n >= 1 /\ r \in Seq(Byte) /\ Len(r) = n
  <2>1. n \in {1, 2, 3} /\ n \in Nat /\ CanRead(n)
    BY ModRmStep
  <2>2. r \in Seq(Byte) /\ Len(r) = n
    BY <2>1, ReadIsTyped
  <2> QED
    BY <2>1, <2>2
<1>5. inst' = [inst EXCEPT !.instruction_bytes = s \o r, !.has_modrm = TRUE,
                           !.modrm_offset = Len(s), !.displacement_size = n - 1]
  BY ModRmStep
<1>6. s \in Seq(Byte) /\ Len(s) \in Nat /\ inst.prefix_ct \in Nat
  BY <1>2, FieldsAreTyped
<1> HIDE DEF s, r, n
<1>7. /\ inst'.instruction_bytes = s \o r /\ inst'.has_modrm = TRUE
      /\ inst'.modrm_offset = Len(s) /\ inst'.displacement_size = n - 1
      /\ inst'.prefix_bytes = inst.prefix_bytes /\ inst'.prefix_ct = inst.prefix_ct
      /\ inst'.opcode = inst.opcode /\ inst'.opcode_offset = inst.opcode_offset
      /\ inst'.immediate_bytes = << >>
  BY <1>2, <1>3, <1>5 DEF InstructionRecord
<1>8. /\ s \o r \in Seq(Byte) /\ Len(s \o r) = Len(s) + n
      /\ \A k \in 1..(Len(s) + Len(r)) :
           (s \o r)[k] = IF k <= Len(s) THEN s[k] ELSE r[k - Len(s)]
  BY <1>4, <1>6, ConcatProperties
<1>9. ImmediatesAt(inst') = Len(s \o r)
  <2>1. ImmediatesAt(inst') = inst'.modrm_offset + 1 + inst'.displacement_size
    BY <1>7, ImmediatesCases
  <2> QED
    BY <1>4, <1>6, <1>7, <1>8, <2>1
<1>10. /\ inst.opcode_offset = inst.prefix_ct /\ s[inst.opcode_offset + 1] = inst.opcode
       /\ inst.prefix_ct = Len(inst.prefix_bytes)
       /\ IsSlice(inst.prefix_bytes, s, 0, inst.prefix_ct)
  BY <1>3, Zenon DEF Tiled, s
<1>11. (s \o r)[inst.opcode_offset + 1] = inst.opcode
  <2>1. inst.opcode_offset + 1 \in 1..(Len(s) + Len(r)) /\ inst.opcode_offset + 1 <= Len(s)
    BY <1>3, <1>4, <1>6, <1>10
  <2> QED
    BY <1>8, <1>10, <2>1
<1>12. IsSlice(inst.prefix_bytes, s \o r, 0, inst.prefix_ct)
  BY <1>3, <1>4, <1>6, <1>10, SliceOfLonger
<1>13. IsSlice(<< >>, s \o r, Len(s \o r), Len(s \o r))
  <2>1. s \o r \in Seq(Byte) /\ Len(s \o r) \in Nat
    BY <1>8, LenProperties
  <2> QED
    BY <2>1, SliceStarts
<1>14. Len(s \o r) <= Len(s \o r)
  BY <1>4, <1>6, <1>8
<1>15. Tiled(inst')
  BY <1>3, <1>7, <1>9, <1>10, <1>11, <1>12, <1>13, <1>14 DEF Tiled
<1> QED
  BY <1>1, <1>15 DEF PartsInPlace, Returned

\* What an operand's bytes leave of the record.
LEMMA RecordedFields ==
  ASSUME TypeOK, NEW k \in {1, 2}, CanRead(ImmediateWidth(Template(k)))
  PROVE  LET r   == Read(ImmediateWidth(Template(k)))
             rec == Recorded(Template(k), r)
         IN /\ r \in Seq(Byte) /\ Len(r) = ImmediateWidth(Template(k))
            /\ Template(k) \in OperandTemplate
            /\ rec \in InstructionRecord
            /\ SameHead(inst, rec)
            /\ rec.instruction_bytes = inst.instruction_bytes \o r
            /\ rec.immediate_bytes = inst.immediate_bytes \o r
            /\ rec.operand1 = inst.operand1
<1> DEFINE t   == Template(k)
           n   == ImmediateWidth(t)
           r   == Read(n)
           rec == Recorded(t, r)
<1>1. t \in OperandTemplate
  <2>1. row \in RowIndex
    BY Zenon DEF TypeOK
  <2> QED
    BY <2>1, RowsAreTyped DEF Template
<1>2. n \in Nat
  <2> HIDE DEF t
  <2> QED
    BY <1>1, WidthIsTyped
<1>3. r \in Seq(Byte) /\ Len(r) = n
  <2> HIDE DEF n
  <2>1. CanRead(n)
    BY DEF n
  <2> QED
    BY <1>2, <2>1, ReadIsTyped
<1>4. RecordedBytes(t, r) = r
  <2> HIDE DEF t, r
  <2> QED
    BY <1>1, <1>3, RecordedIsRead
<1>5. inst \in InstructionRecord
  BY Zenon DEF TypeOK
<1>6. rec = [inst EXCEPT !.instruction_bytes = inst.instruction_bytes \o r,
                         !.immediate_bytes = inst.immediate_bytes \o r]
  <2> HIDE DEF t, r
  <2> QED
    BY <1>4 DEF Recorded
<1>7. rec \in InstructionRecord
  <2> HIDE DEF r
  <2> QED
    BY <1>1, <1>3, RecordedIsTyped
<1>8. /\ SameHead(inst, rec)
      /\ rec.instruction_bytes = inst.instruction_bytes \o r
      /\ rec.immediate_bytes = inst.immediate_bytes \o r
      /\ rec.operand1 = inst.operand1
  <2> HIDE DEF r, rec
  <2> QED
    BY <1>5, <1>6 DEF InstructionRecord, SameHead
<1> QED
  BY <1>1, <1>3, <1>7, <1>8, Zenon

\* An operand's bytes are immediates, whichever operand it is.
LEMMA PartsOperand ==
  TypeOK /\ PartsInPlace /\ (ResolveOperand1 \/ ResolveOperand2) => PartsInPlace'
<1> SUFFICES ASSUME TypeOK, PartsInPlace, ResolveOperand1 \/ ResolveOperand2
             PROVE  PartsInPlace'
  OBVIOUS
<1>1. inst \in InstructionRecord
  BY Zenon DEF TypeOK
<1>2. ASSUME NEW k \in {1, 2}, CanRead(ImmediateWidth(Template(k))), Tiled(inst),
             NEW j, LET rec == Recorded(Template(k), Read(ImmediateWidth(Template(k))))
                    IN /\ SameHead(rec, j)
                       /\ j.instruction_bytes = rec.instruction_bytes
                       /\ j.immediate_bytes = rec.immediate_bytes
      PROVE  Tiled(j)
  <2> DEFINE r   == Read(ImmediateWidth(Template(k)))
             rec == Recorded(Template(k), r)
  <2>1. /\ r \in Seq(Byte) /\ SameHead(inst, rec)
        /\ rec.instruction_bytes = inst.instruction_bytes \o r
        /\ rec.immediate_bytes = inst.immediate_bytes \o r
    BY <1>2, RecordedFields
  <2>2. SameHead(inst, j) /\ j.instruction_bytes = inst.instruction_bytes \o r
        /\ j.immediate_bytes = inst.immediate_bytes \o r
    <3> HIDE DEF r
    <3> QED
      BY <1>2, <2>1 DEF SameHead, r
  <2> HIDE DEF r, rec
  <2> QED
    BY <1>1, <1>2, <2>1, <2>2, TilingWidens
<1>3. CASE ResolveOperand1
  <2> DEFINE rec == Recorded(Template(1), Read(ImmediateWidth(Template(1))))
             op  == Resolved(Template(1), Read(ImmediateWidth(Template(1))))
  <2>1. CanRead(ImmediateWidth(Template(1))) /\ pc = "operand1"
    BY <1>3 DEF ResolveOperand1, Template
  <2>2. CASE LacksModRm(Template(1))
    <3>1. Return("AttributeError", Blank)
      BY <1>3, <2>2 DEF ResolveOperand1, ModRmIsNone, Template
    <3> QED
      BY <3>1, PartsReturn
  <2>3. CASE ~LacksModRm(Template(1))
    <3>1. inst' = [rec EXCEPT !.operand1 = op] /\ pc' = "operand2"
      BY <1>3, <2>3 DEF ResolveOperand1, Template
    <3>2. rec \in InstructionRecord
      BY <2>1, RecordedFields
    <3> HIDE DEF rec, op
    <3>3. /\ SameHead(rec, inst') /\ inst'.instruction_bytes = rec.instruction_bytes
          /\ inst'.immediate_bytes = rec.immediate_bytes
      BY <3>1, <3>2 DEF InstructionRecord, SameHead
    <3>4. Tiled(inst')
      BY <1>2, <2>1, <3>3 DEF PartsInPlace, rec
    <3> QED
      BY <3>1, <3>4 DEF PartsInPlace, Returned
  <2> QED
    BY <2>2, <2>3
<1>4. CASE ResolveOperand2
  <2> DEFINE rec == Recorded(Template(2), Read(ImmediateWidth(Template(2))))
             op  == Resolved(Template(2), Read(ImmediateWidth(Template(2))))
             all == [rec EXCEPT !.operand2 = op, !.is_complete = TRUE]
  <2>1. CanRead(ImmediateWidth(Template(2))) /\ pc = "operand2"
    BY <1>4 DEF ResolveOperand2, Template
  <2>2. CASE LacksModRm(Template(2))
    <3>1. Return("AttributeError", Blank)
      BY <1>4, <2>2 DEF ResolveOperand2, ModRmIsNone, Template
    <3> QED
      BY <3>1, PartsReturn
  <2>3. CASE ~LacksModRm(Template(2))
    <3>1. Return("instruction", all)
      BY <1>4, <2>3 DEF ResolveOperand2, Template
    <3>2. rec \in InstructionRecord
      BY <2>1, RecordedFields
    <3> HIDE DEF rec, op
    <3>3. /\ SameHead(rec, all) /\ all.instruction_bytes = rec.instruction_bytes
          /\ all.immediate_bytes = rec.immediate_bytes
      BY <3>2 DEF InstructionRecord, SameHead
    <3> HIDE DEF all
    <3>4. Tiled(all)
      BY <1>2, <2>1, <3>3 DEF PartsInPlace, rec
    <3> QED
      BY <3>1, <3>4, PartsReturn
  <2> QED
    BY <2>2, <2>3
<1> QED
  BY <1>3, <1>4

LEMMA PartsNext == TypeOK /\ Bookkeeping /\ PartsInPlace /\ [Next]_vars => PartsInPlace'
<1> SUFFICES ASSUME TypeOK, Bookkeeping, PartsInPlace, [Next]_vars PROVE PartsInPlace'
  OBVIOUS
<1>1. CASE RunsOutInPhase
  <2>1. Return(EndOfInput, Blank) /\ EndOfInput # "instruction"
    BY <1>1, RunningOut DEF EndOfInput
  <2> QED
    BY <2>1, PartsReturn
<1>2. CASE UNCHANGED vars
  BY <1>2 DEF vars, local, PartsInPlace, Returned
<1> QED
  BY <1>1, <1>2, PartsCall, PartsPrefixOrOpcode, PartsModRm, PartsOperand, Zenon
     DEF Next, DecodeStep

\* At every phase of a decode the record is laid out as far as it has come.
THEOREM PartsHold == Spec => []PartsInPlace
BY PartsInit, PartsNext, TypeCorrect, BookkeepingHolds, PTL DEF Spec

\* The parts of a returned instruction tile it in encoding order, and the
\* recorded count and offsets say where each begins, for every input and table.
THEOREM PartsTile == Spec => []PartsTileInstruction
<1>1. TypeOK /\ PartsInPlace => PartsTileInstruction
  <2> SUFFICES ASSUME TypeOK, Tiled(result)
               PROVE  LET all   == result.instruction_bytes
                          after == ImmediatesAt(result)
                      IN /\ result.prefix_ct = result.opcode_offset
                         /\ result.has_modrm => result.modrm_offset = result.opcode_offset + 1
                         /\ SubSeq(all, 1, result.prefix_ct) = result.prefix_bytes
                         /\ all[result.opcode_offset + 1] = result.opcode
                         /\ SubSeq(all, after + 1, Len(all)) = result.immediate_bytes
    BY Zenon DEF PartsInPlace, PartsTileInstruction, ImmediatesAt
  <2> DEFINE all   == result.instruction_bytes
             after == ImmediatesAt(result)
             ct    == result.prefix_ct
  <2>1. result \in InstructionRecord
    BY Zenon DEF TypeOK
  <2>2. all \in Seq(Byte) /\ Len(all) \in Nat /\ after \in Nat /\ ct \in Nat
    BY <2>1, FieldsAreTyped
  <2>3. /\ after <= Len(all) /\ IsSlice(result.prefix_bytes, all, 0, ct)
        /\ IsSlice(result.immediate_bytes, all, after, Len(all))
        /\ ct = result.opcode_offset /\ all[result.opcode_offset + 1] = result.opcode
        /\ result.has_modrm => result.modrm_offset = result.opcode_offset + 1
    BY Zenon DEF Tiled
  <2>4. ct <= Len(all)
    <3>1. result.has_modrm \/ ~result.has_modrm
      OBVIOUS
    <3>2. CASE result.has_modrm
      <4>1. result.modrm_offset = ct + 1 /\ after = result.modrm_offset + 1 + result.displacement_size
        BY <2>3, <3>2, ImmediatesCases, Zenon
      <4>2. result.displacement_size \in Nat
        BY <2>1, FieldsAreTyped
      <4> HIDE DEF all, after, ct
      <4> QED
        BY <2>2, <2>3, <4>1, <4>2
    <3>3. CASE ~result.has_modrm
      <4>1. after = ct + 1
        BY <2>3, <3>3, ImmediatesCases, Zenon
      <4> HIDE DEF all, after, ct
      <4> QED
        BY <2>2, <2>3, <4>1
    <3> QED
      BY <3>2, <3>3
  <2> HIDE DEF all, after, ct
  <2>5. SubSeq(all, 1, ct) = result.prefix_bytes
    <3>1. IsSlice(SubSeq(all, 0 + 1, ct), all, 0, ct)
      BY <2>2, <2>4, PassedIsSlice
    <3>2. 0 + 1 = 1
      OBVIOUS
    <3> QED
      BY <2>2, <2>3, <3>1, <3>2, SliceIsUnique
  <2>6. SubSeq(all, after + 1, Len(all)) = result.immediate_bytes
    <3>1. IsSlice(SubSeq(all, after + 1, Len(all)), all, after, Len(all))
      BY <2>2, <2>3, PassedIsSlice
    <3> QED
      BY <2>2, <2>3, <3>1, SliceIsUnique
  <2> QED
    BY <2>3, <2>5, <2>6, Zenon DEF all, after, ct
<1> QED
  BY <1>1, TypeCorrect, PartsHold, PTL

-----------------------------------------------------------------------------
(* The numbers of an instruction.                                          *)
(*                                                                         *)
(* OperandsSpellTheirBytes names all of the immediates, so it needs that a *)
(* row takes at most one operand from them; the decoder checks it nowhere. *)

OneImmediate ==
  \A i \in RowIndex : ImmediateWidth(DECODE[i].operands[1]) = 0
                      \/ ImmediateWidth(DECODE[i].operands[2]) = 0

\* The operands that carry a number out of the immediates.
ImmediateKinds ==
  {"rel8", "imm8s", "rel16", "imm8", "imm16", "offset8_16", "offset16_16", "far16"}

\* A displacement is held exactly when there is a ModRM byte to hold it for,
\* and it is the number that its bytes spell.
DisplacementIsHeld ==
  /\ pc \in {"opcode", "modrm"} => modrm = NoModRm
  /\ pc \in {"operand1", "operand2"} /\ modrm # NoModRm =>
       inst.has_modrm /\ Signed(displacement, DisplacementOf(inst))

\* The first operand waits for the second with all that it was resolved from.
FirstIsSpelt ==
  /\ pc = "operand1" => inst.immediate_bytes = << >>
  /\ pc = "operand2" =>
       /\ Spells(inst.operand1, DisplacementOf(inst), inst.immediate_bytes)
       /\ inst.operand1.kind = "addr16" => inst.has_modrm
       /\ inst.operand1.kind \in ImmediateKinds => ImmediateWidth(Template(1)) # 0
       /\ ImmediateWidth(Template(1)) = 0 => inst.immediate_bytes = << >>

NumbersInPlace == DisplacementIsHeld /\ FirstIsSpelt /\ OperandsSpellTheirBytes

\* The powers of the base, as numbers.
LEMMA Powers == 256 ^ 0 = 1 /\ 256 ^ 1 = 256 /\ 256 ^ 2 = 65536
OBVIOUS

\* What it takes to be spelt in two's complement, by inequalities.
LEMMA SignedMeans ==
  ASSUME NEW v \in Int, NEW b, NEW m \in Int, 256 ^ Len(b) = m,
         v % m = Number(b), -m <= 2 * v, 2 * v <= m - 1
  PROVE  Signed(v, b)
<1>1. 2 * v \in (-m)..(m - 1)
  OBVIOUS
<1> QED
  BY <1>1, Zenon DEF Signed

\* Two's complement of one byte and of two.
LEMMA SignedIsSpelt ==
  /\ \A b \in Byte : Signed(Signed8(b), << b >>)
  /\ \A lo, hi \in Byte : Signed(Signed16(U16(lo, hi)), << lo, hi >>)
  /\ Signed(0, << >>)
<1>1. ASSUME NEW b \in Byte PROVE Signed(Signed8(b), << b >>)
  <2> DEFINE v == Signed8(b)
  <2>1. v \in Int /\ v % 256 = b /\ -128 <= v /\ v <= 127
    BY <1>1, SignedByte
  <2>2. Len(<< b >>) = 1 /\ Number(<< b >>) = b
    BY DEF Number
  <2>3. 256 ^ Len(<< b >>) = 256
    BY <2>2, Powers
  <2> DEFINE p == << b >>
             m == 256
  <2> HIDE DEF v, p
  <2>4. m \in Int /\ 256 ^ Len(p) = m /\ v % m = Number(p) /\ -m <= 2 * v /\ 2 * v <= m - 1
    BY <2>1, <2>2, <2>3 DEF p
  <2> HIDE DEF m
  <2>5. Signed(v, p)
    BY <2>1, <2>4, SignedMeans, Zenon
  <2> QED
    BY <2>5 DEF v, p
<1>2. ASSUME NEW lo \in Byte, NEW hi \in Byte
      PROVE  Signed(Signed16(U16(lo, hi)), << lo, hi >>)
  <2> DEFINE w == U16(lo, hi)
             v == Signed16(w)
             p == << lo, hi >>
  <2>1. w \in Int /\ 0 <= w /\ w <= 65535
    BY <1>2, WordRange
  <2>2. v \in Int /\ -32768 <= v /\ v <= 32767
    BY <1>2, SignedWord
  <2>3. v % 65536 = w
    <3> HIDE DEF w
    <3>1. CASE w >= 32768
      <4>1. v = w - 65536
        BY <2>1, <3>1 DEF Signed16
      <4> QED
        BY <2>1, <4>1
    <3>2. CASE w < 32768
      <4>1. v = w
        BY <2>1, <3>2 DEF Signed16
      <4> QED
        BY <2>1, <4>1
    <3> QED
      BY <2>1, <3>1, <3>2
  <2>4. Len(p) = 2 /\ Number(p) = w
    BY DEF Number, U16
  <2>5. 256 ^ Len(p) = 65536
    BY <2>4, Powers
  <2> HIDE DEF v, w, p
  <2>6. -65536 <= 2 * v /\ 2 * v <= 65536 - 1 /\ 65536 \in Int
    BY <2>2
  <2> DEFINE m == 65536
  <2>7. /\ v \in Int /\ m \in Int /\ 256 ^ Len(p) = m /\ v % m = Number(p)
        /\ -m <= 2 * v /\ 2 * v <= m - 1
    BY <2>2, <2>3, <2>4, <2>5, <2>6
  <2> HIDE DEF m
  <2>8. Signed(v, p)
    BY <2>7, SignedMeans, Zenon
  <2> QED
    BY <2>8 DEF v, w, p
<1>3. Signed(0, << >>)
  <2>1. Len(<< >>) = 0 /\ Number(<< >>) = 0
    BY EmptySeq DEF Number
  <2> DEFINE v == 0
             m == 1
             p == << >>
  <2>2. /\ v \in Int /\ m \in Int /\ 256 ^ Len(p) = m /\ v % m = Number(p)
        /\ -m <= 2 * v /\ 2 * v <= m - 1
    BY <2>1, Powers
  <2> HIDE DEF v, m, p
  <2>3. Signed(v, p)
    BY <2>2, SignedMeans, Zenon
  <2> QED
    BY <2>3 DEF v, p
<1> QED
  BY <1>1, <1>2, <1>3

\* A displacement is the number its bytes spell.
LEMMA DisplacementIsSpelt ==
  ASSUME NEW width \in {0, 1, 2}, NEW raw \in Seq(Byte), Len(raw) = width
  PROVE  Signed(DisplacementValue(width, raw), raw)
<1>1. CASE width = 0
  <2>1. raw = << >> /\ DisplacementValue(width, raw) = 0
    BY <1>1, ShortSequences DEF DisplacementValue
  <2> QED
    BY <2>1, SignedIsSpelt
<1>2. CASE width = 1
  <2>1. raw = << raw[1] >> /\ raw[1] \in Byte
    BY <1>2, ShortSequences
  <2>2. DisplacementValue(width, raw) = Signed8(raw[1])
    BY <1>2 DEF DisplacementValue
  <2> QED
    BY <2>1, <2>2, SignedIsSpelt, Zenon
<1>3. CASE width = 2
  <2>1. raw = << raw[1], raw[2] >> /\ raw[1] \in Byte /\ raw[2] \in Byte
    BY <1>3, ShortSequences
  <2>2. DisplacementValue(width, raw) = Signed16(U16(raw[1], raw[2]))
    BY <1>3 DEF DisplacementValue
  <2> QED
    BY <2>1, <2>2, SignedIsSpelt, Zenon
<1> QED
  BY <1>1, <1>2, <1>3

\* An operand resolved from the immediates carries what they spell.
LEMMA ImmediateIsSpelt ==
  ASSUME NEW template \in OperandTemplate \ ModRmTemplates,
         NEW raw \in Seq(Byte), Len(raw) = ImmediateWidth(template), NEW disp
  PROVE  /\ Spells(ImmediateOperand(template, raw), disp, raw)
         /\ ImmediateOperand(template, raw).kind # "addr16"
         /\ ImmediateOperand(template, raw).kind \in ImmediateKinds =>
              ImmediateWidth(template) # 0
<1> DEFINE op == ImmediateOperand(template, raw)
<1>1. CASE template \in {"NONE", "FIXED8", "FIXED16"}
  <2>1. op.kind \in {"none", "reg8", "reg16"}
    BY <1>1 DEF ImmediateOperand, NO_OPERAND
  <2> HIDE DEF op
  <2> QED
    BY <2>1, Zenon DEF Spells, ImmediateKinds, op
<1>2. CASE template \in {"IMM8", "REL8", "IMM8SE"}
  <2>1. ImmediateWidth(template) = 1
    BY <1>2 DEF ImmediateWidth, Words
  <2>2. raw = << raw[1] >> /\ raw[1] \in Byte
    BY <2>1, ShortSequences
  <2>3. \/ op.kind = "imm8" /\ op.value[1] = raw[1]
        \/ op.kind \in {"rel8", "imm8s"} /\ op.value[1] = Signed8(raw[1])
    BY <1>2 DEF ImmediateOperand
  <2>4. Unsigned(raw[1], raw)
    <3>1. Number(<< raw[1] >>) = raw[1]
      BY DEF Number
    <3> QED
      BY <2>2, <3>1, Zenon DEF Unsigned
  <2>5. Signed(Signed8(raw[1]), raw)
    BY <2>2, SignedIsSpelt, Zenon
  <2> HIDE DEF op
  <2> QED
    BY <2>1, <2>3, <2>4, <2>5 DEF Spells, op
<1>3. CASE template \in Words
  <2>1. ImmediateWidth(template) = 2
    BY <1>3 DEF ImmediateWidth, Words
  <2>2. raw = << raw[1], raw[2] >> /\ raw[1] \in Byte /\ raw[2] \in Byte
    BY <2>1, ShortSequences
  <2>3. \/ op.kind \in {"imm16", "offset8_16", "offset16_16"} /\ op.value[1] = U16(raw[1], raw[2])
        \/ op.kind = "rel16" /\ op.value[1] = Signed16(U16(raw[1], raw[2]))
    BY <1>3 DEF ImmediateOperand, Words
  <2>4. Unsigned(U16(raw[1], raw[2]), raw)
    <3>1. Number(<< raw[1], raw[2] >>) = U16(raw[1], raw[2])
      BY DEF Number, U16
    <3> QED
      BY <2>2, <3>1, Zenon DEF Unsigned
  <2>5. Signed(Signed16(U16(raw[1], raw[2])), raw)
    BY <2>2, SignedIsSpelt, Zenon
  <2> HIDE DEF op
  <2> QED
    BY <2>1, <2>3, <2>4, <2>5 DEF Spells, op
<1>4. CASE template = "FAR"
  <2>1. ImmediateWidth(template) = 4
    BY <1>4 DEF ImmediateWidth, Words
  <2>2. /\ op.kind = "far16" /\ op.value[1] = FarSegment(raw) /\ op.value[2] = FarOffset(raw)
    BY <1>4 DEF ImmediateOperand
  <2>3. /\ SubSeq(raw, 1, 2) = << raw[1], raw[2] >> /\ SubSeq(raw, 3, 4) = << raw[3], raw[4] >>
    <3>1. Len(raw) = 4
      BY <2>1
    <3>2. ASSUME NEW a \in Nat, a + 2 <= 4
          PROVE  SubSeq(raw, a + 1, a + 2) = << raw[a + 1], raw[a + 2] >>
      <4> DEFINE t == SubSeq(raw, a + 1, a + 2)
      <4>1. IsSlice(t, raw, a, a + 2)
        BY <3>1, <3>2, ReadIsSlice
      <4> HIDE DEF t
      <4>2. t \in Seq(Byte) /\ Len(t) = 2 /\ \A k \in 1..Len(t) : t[k] = raw[a + k]
        BY <4>1 DEF IsSlice
      <4>3. t = << t[1], t[2] >> /\ t[1] = raw[a + 1] /\ t[2] = raw[a + 2]
        BY <4>2, ShortSequences
      <4> QED
        BY <4>3, Zenon DEF t
    <3>3. 0 \in Nat /\ 2 \in Nat /\ 0 + 2 <= 4 /\ 2 + 2 <= 4
      OBVIOUS
    <3>5. /\ SubSeq(raw, 0 + 1, 0 + 2) = << raw[0 + 1], raw[0 + 2] >>
          /\ SubSeq(raw, 2 + 1, 2 + 2) = << raw[2 + 1], raw[2 + 2] >>
      BY <3>2, <3>3, Zenon
    <3>6. 0 + 1 = 1 /\ 0 + 2 = 2 /\ 2 + 1 = 3 /\ 2 + 2 = 4
      OBVIOUS
    <3> QED
      BY <3>5, <3>6
  <2>4. /\ Number(<< raw[1], raw[2] >>) = FarOffset(raw)
        /\ Number(<< raw[3], raw[4] >>) = FarSegment(raw)
    BY DEF Number, FarOffset, FarSegment, U16
  <2>5. Unsigned(op.value[2], SubSeq(raw, 1, 2)) /\ Unsigned(op.value[1], SubSeq(raw, 3, 4))
    BY <2>2, <2>3, <2>4, Zenon DEF Unsigned
  <2> HIDE DEF op
  <2> QED
    BY <2>1, <2>2, <2>5 DEF Spells, op
<1> QED
  BY <1>1, <1>2, <1>3, <1>4 DEF OperandTemplate, Words

\* An operand resolved from the ModRM byte carries its displacement.
LEMMA ModRmIsSpelt ==
  ASSUME NEW template \in ModRmTemplates, NEW m, NEW d, NEW disp, NEW imm, Signed(d, disp)
  PROVE  /\ Spells(ModRmOperand(template, m, d), disp, imm)
         /\ ModRmOperand(template, m, d).kind \notin ImmediateKinds
<1> DEFINE op == ModRmOperand(template, m, d)
<1>1. \/ op.kind \in {"reg8", "reg16", "sreg16"}
      \/ op.kind = "addr16" /\ op.value[3] = d
  BY DEF ModRmOperand, ModRmTemplates
<1> HIDE DEF op
<1>2. op.kind \notin ImmediateKinds
  BY <1>1 DEF ImmediateKinds
<1>3. Spells(op, disp, imm)
  BY <1>1 DEF Spells
<1> QED
  BY <1>2, <1>3 DEF op

\* What an operand spells does not depend on the bytes it has no number from.
LEMMA SpellingStays ==
  ASSUME NEW op, NEW d, NEW m, NEW dd, NEW mm, Spells(op, d, m),
         op.kind = "addr16" => dd = d, op.kind \in ImmediateKinds => mm = m
  PROVE  Spells(op, dd, mm)
<1>1. op.kind = "addr16" => Signed(op.value[3], dd)
  BY Zenon DEF Spells
<1>2. CASE op.kind \in ImmediateKinds
  <2>1. mm = m
    BY <1>2
  <2> QED
    BY <1>1, <2>1, Zenon DEF Spells
<1>3. CASE op.kind \notin ImmediateKinds
  BY <1>1, <1>3, Zenon DEF Spells, ImmediateKinds
<1> QED
  BY <1>2, <1>3

\* Bytes appended behind the displacement leave it where it is.
LEMMA DisplacementStays ==
  ASSUME NEW i \in InstructionRecord, Tiled(i), i.has_modrm, NEW r \in Seq(Byte),
         NEW j, SameHead(i, j), j.instruction_bytes = i.instruction_bytes \o r
  PROVE  DisplacementOf(j) = DisplacementOf(i)
<1> DEFINE s == i.instruction_bytes
           a == i.modrm_offset + 1
           e == i.modrm_offset + 1 + i.displacement_size
<1>1. /\ s \in Seq(Byte) /\ Len(s) \in Nat /\ i.modrm_offset \in Nat
      /\ i.displacement_size \in Nat
  BY FieldsAreTyped
<1>2. e <= Len(s)
  BY ImmediatesCases, Zenon DEF Tiled
<1>3. a \in Nat /\ e \in Nat /\ a <= e /\ a + 1 = i.modrm_offset + 2
  <2> HIDE DEF s
  <2> QED
    BY <1>1
<1>4. DisplacementOf(i) = SubSeq(s, a + 1, e) /\ DisplacementOf(j) = SubSeq(s \o r, a + 1, e)
  <2>1. /\ DisplacementOf(i) = SubSeq(s, i.modrm_offset + 2, e)
        /\ DisplacementOf(j) = SubSeq(s \o r, i.modrm_offset + 2, e)
    BY Zenon DEF DisplacementOf, SameHead
  <2> HIDE DEF a, e, s
  <2> QED
    BY <1>3, <2>1
<1> HIDE DEF s, a, e
<1>5. s \o r \in Seq(Byte) /\ Len(s \o r) = Len(s) + Len(r) /\ Len(r) \in Nat
  BY <1>1, ConcatProperties
<1>6. IsSlice(SubSeq(s, a + 1, e), s, a, e)
  BY <1>1, <1>2, <1>3, PassedIsSlice
<1>7. IsSlice(SubSeq(s, a + 1, e), s \o r, a, e)
  BY <1>1, <1>2, <1>3, <1>6, SliceOfLonger
<1>8. e <= Len(s \o r)
  BY <1>1, <1>2, <1>3, <1>5
<1>9. IsSlice(SubSeq(s \o r, a + 1, e), s \o r, a, e)
  BY <1>3, <1>5, <1>8, PassedIsSlice
<1>10. SubSeq(s \o r, a + 1, e) = SubSeq(s, a + 1, e)
  BY <1>5, <1>7, <1>9, SliceIsUnique
<1> QED
  BY <1>4, <1>10

\* A stretch of a stretch of the input.
LEMMA SliceOfSlice ==
  ASSUME NEW b \in Seq(Byte), NEW s \in Nat, NEW p \in Nat, NEW t, IsSlice(t, b, s, p),
         NEW a \in Nat, NEW e \in Nat, a <= e, e <= Len(t)
  PROVE  IsSlice(SubSeq(t, a + 1, e), b, s + a, s + e)
<1> DEFINE u == SubSeq(t, a + 1, e)
<1>1. t \in Seq(Byte) /\ Len(t) = p - s /\ \A k \in 1..Len(t) : t[k] = b[s + k]
  BY DEF IsSlice
<1>2. IsSlice(u, t, a, e)
  BY <1>1, PassedIsSlice
<1> HIDE DEF u
<1>3. u \in Seq(Byte) /\ Len(u) = e - a /\ \A k \in 1..Len(u) : u[k] = t[a + k]
  BY <1>2 DEF IsSlice
<1>4. ASSUME NEW k \in 1..Len(u) PROVE u[k] = b[(s + a) + k]
  <2>1. a + k \in 1..Len(t) /\ (s + a) + k = s + (a + k)
    BY <1>3
  <2>2. t[a + k] = b[s + (a + k)]
    BY <1>1, <2>1
  <2> QED
    BY <1>3, <2>1, <2>2
<1>5. Len(u) = (s + e) - (s + a)
  BY <1>3
<1> QED
  BY <1>3, <1>4, <1>5 DEF IsSlice, u

LEMMA NumbersInit == Init => NumbersInPlace
BY DEF Init, NumbersInPlace, DisplacementIsHeld, FirstIsSpelt, OperandsSpellTheirBytes, Returned

\* A step that returns anything but an instruction carries no number.
LEMMA NumbersReturn ==
  ASSUME NEW o, NEW i, Return(o, i),
         o = "instruction" => /\ Spells(i.operand1, DisplacementOf(i), i.immediate_bytes)
                              /\ Spells(i.operand2, DisplacementOf(i), i.immediate_bytes)
  PROVE  NumbersInPlace'
<1>1. pc' = "idle" /\ outcome' = o /\ result' = i
  BY DEF Return
<1>2. DisplacementIsHeld' /\ FirstIsSpelt'
  BY <1>1 DEF DisplacementIsHeld, FirstIsSpelt
<1>3. OperandsSpellTheirBytes'
  BY <1>1, Zenon DEF OperandsSpellTheirBytes, Returned
<1> QED
  BY <1>2, <1>3, Zenon DEF NumbersInPlace

LEMMA NumbersCall == TypeOK /\ Bookkeeping /\ Call => NumbersInPlace'
<1> SUFFICES ASSUME TypeOK, Bookkeeping, Call PROVE NumbersInPlace'
  OBVIOUS
<1>1. ASSUME NEW o, o # "instruction", Return(o, Blank) PROVE NumbersInPlace'
  BY <1>1, NumbersReturn, Zenon
<1>2. ASSUME NEW p \in -1..(Len(buf) + 1), SetPosition(p) PROVE NumbersInPlace'
  BY <1>1, <1>2 DEF SetPosition, Answer
<1>3. CASE Rewind
  BY <1>1, <1>3 DEF Rewind, Answer
<1>4. ASSUME NEW c \in CpuType, SetOptions(c) PROVE NumbersInPlace'
  BY <1>1, <1>4 DEF SetOptions, Answer
<1>5. ASSUME NEW v \in {"decode_next", "__next__"}, DecodeNext(v) PROVE NumbersInPlace'
  <2>1. CASE cpu = "Intel808x"
    <3>1. pc = "idle" /\ pc' = "opcode" /\ modrm' = modrm
      BY <1>5, <2>1 DEF DecodeNext, local
    <3>2. modrm' = NoModRm
      BY <3>1 DEF Bookkeeping, IdleIsBlank
    <3> QED
      BY <3>1, <3>2 DEF NumbersInPlace, DisplacementIsHeld, FirstIsSpelt,
                        OperandsSpellTheirBytes, Returned
  <2>2. CASE cpu # "Intel808x"
    BY <1>1, <1>5, <2>2 DEF DecodeNext
  <2> QED
    BY <2>1, <2>2
<1> QED
  BY <1>2, <1>3, <1>4, <1>5, Zenon DEF Call

LEMMA NumbersPrefixOrOpcode ==
  TypeOK /\ PartsInPlace /\ NumbersInPlace /\ ReadPrefixOrOpcode => NumbersInPlace'
<1> SUFFICES ASSUME TypeOK, PartsInPlace, NumbersInPlace, ReadPrefixOrOpcode
             PROVE  NumbersInPlace'
  OBVIOUS
<1>1. pc = "opcode" /\ pc' \in {"opcode", "modrm", "operand1"} /\ modrm' = modrm
  BY DEF ReadPrefixOrOpcode
<1>2. modrm' = NoModRm
  BY <1>1 DEF NumbersInPlace, DisplacementIsHeld
<1>3. inst'.immediate_bytes = << >>
  <2>1. inst \in InstructionRecord
    BY Zenon DEF TypeOK
  <2>2. inst'.immediate_bytes = inst.immediate_bytes
    BY <2>1 DEF ReadPrefixOrOpcode, InstructionRecord
  <2> QED
    BY <1>1, <2>2 DEF PartsInPlace
<1> QED
  BY <1>1, <1>2, <1>3 DEF NumbersInPlace, DisplacementIsHeld, FirstIsSpelt,
                          OperandsSpellTheirBytes, Returned

\* The displacement kept for the operands is spelt by the bytes recorded for it.
LEMMA NumbersModRm ==
  TypeOK /\ Bookkeeping /\ PartsInPlace /\ ReadModRm => NumbersInPlace'
<1> SUFFICES ASSUME TypeOK, Bookkeeping, PartsInPlace, ReadModRm PROVE NumbersInPlace'
  OBVIOUS
<1> DEFINE width == DisplacementWidth(buf[position + 1])
           disp  == SubSeq(buf, position + 2, position + 1 + width)
           s     == inst.instruction_bytes
           r     == Read(ModRmBytes)
<1>1. pc = "modrm" /\ pc' = "operand1" /\ displacement' = DisplacementValue(width, disp)
  BY DEF ReadModRm
<1>2. inst \in InstructionRecord
  BY Zenon DEF TypeOK
<1>3. buf[position + 1] \in Byte /\ CanRead(ModRmBytes) /\ ModRmBytes = 1 + width
  BY ModRmStep DEF ModRmBytes
<1>4. width \in {0, 1, 2}
  BY <1>3, ModRmFields
<1>5. /\ inst'.instruction_bytes = s \o r /\ inst'.has_modrm = TRUE
      /\ inst'.modrm_offset = Len(s) /\ inst'.displacement_size = ModRmBytes - 1
      /\ inst'.immediate_bytes = inst.immediate_bytes
  <2>1. inst' = [inst EXCEPT !.instruction_bytes = s \o r, !.has_modrm = TRUE,
                             !.modrm_offset = Len(s), !.displacement_size = ModRmBytes - 1]
    BY ModRmStep
  <2> HIDE DEF s, r
  <2> QED
    BY <1>2, <2>1 DEF InstructionRecord
<1>6. inst.immediate_bytes = << >>
  BY <1>1 DEF PartsInPlace
<1> HIDE DEF width, r
<1>7. s \in Seq(Byte) /\ Len(s) = position - start /\ Len(s) \in Nat
  BY <1>1, <1>2, FieldsAreTyped DEF Bookkeeping, RecordIsSlice, IsSlice
<1>8. /\ IsSlice(s \o r, buf, start, position + ModRmBytes)
      /\ IsSlice(r, buf, position, position + ModRmBytes)
      /\ r \in Seq(Byte) /\ Len(r) = ModRmBytes /\ ModRmBytes \in Nat
  <2>1. ModRmBytes \in Nat
    BY ModRmStep
  <2> QED
    BY <1>1, <1>3, <2>1, ReadIsTyped, ReadExtendsRecord DEF r
<1> HIDE DEF s
<1> DEFINE a == Len(s) + 1
           e == Len(s) + 1 + (ModRmBytes - 1)
<1>9. /\ buf \in Seq(Byte) /\ position \in Nat /\ start \in Nat
      /\ position + 1 + width <= Len(buf) /\ width \in Nat
  BY <1>3, <1>4, Cursor DEF CanRead
<1>10. /\ a \in Nat /\ e \in Nat /\ a <= e /\ e = Len(s) + Len(r)
       /\ start + a = position + 1 /\ start + e = position + 1 + width
       /\ position + ModRmBytes \in Nat
  BY <1>3, <1>7, <1>8, <1>9
<1>11. Len(s \o r) = Len(s) + Len(r)
  BY <1>7, <1>8, ConcatProperties
<1>12. DisplacementOf(inst') = SubSeq(s \o r, a + 1, e)
  <2>1. DisplacementOf(inst') = SubSeq(s \o r, Len(s) + 2, e)
    BY <1>5, Zenon DEF DisplacementOf
  <2>2. a + 1 = Len(s) + 2
    BY <1>7
  <2> QED
    BY <2>1, <2>2
<1> HIDE DEF a, e
<1>13. e <= Len(s \o r)
  BY <1>10, <1>11
<1>14. IsSlice(SubSeq(s \o r, a + 1, e), buf, start + a, start + e)
  BY <1>8, <1>9, <1>10, <1>13, SliceOfSlice
<1> DEFINE p == position + 1
           q == position + 1 + width
<1>15. p \in Nat /\ q \in Nat /\ p <= q /\ q <= Len(buf) /\ q - p = width
  BY <1>9
<1>16. disp = SubSeq(buf, p + 1, q)
  BY <1>9
<1>17. IsSlice(SubSeq(s \o r, a + 1, e), buf, p, q)
  BY <1>10, <1>14
<1> HIDE DEF disp, p, q
<1>18. IsSlice(disp, buf, p, q)
  BY <1>9, <1>15, <1>16, PassedIsSlice
<1>19. DisplacementOf(inst') = disp
  BY <1>9, <1>12, <1>17, <1>18, SliceIsUnique
<1>20. disp \in Seq(Byte) /\ Len(disp) = width
  BY <1>15, <1>18 DEF IsSlice
<1>21. Signed(displacement', DisplacementOf(inst'))
  BY <1>1, <1>4, <1>19, <1>20, DisplacementIsSpelt
<1> QED
  BY <1>1, <1>5, <1>6, <1>21 DEF NumbersInPlace, DisplacementIsHeld, FirstIsSpelt,
                                 OperandsSpellTheirBytes, Returned

\* What an operand carries when it is resolved: the number its own bytes spell,
\* or the displacement, or none.
LEMMA ResolvedIsSpelt ==
  ASSUME TypeOK, NumbersInPlace, pc \in {"operand1", "operand2"},
         NEW k \in {1, 2}, CanRead(ImmediateWidth(Template(k))), ~LacksModRm(Template(k))
  PROVE  LET r  == Read(ImmediateWidth(Template(k)))
             op == Resolved(Template(k), r)
         IN /\ Spells(op, DisplacementOf(inst), r)
            /\ op.kind = "addr16" => inst.has_modrm
            /\ op.kind \in ImmediateKinds => ImmediateWidth(Template(k)) # 0
<1> DEFINE t  == Template(k)
           r  == Read(ImmediateWidth(t))
           op == Resolved(t, r)
           d  == DisplacementOf(inst)
<1>1. t \in OperandTemplate /\ r \in Seq(Byte) /\ Len(r) = ImmediateWidth(t)
  BY RecordedFields
<1> HIDE DEF t, r, d
<1>2. CASE t \in ModRmTemplates
  <2>1. op = ModRmOperand(t, modrm, displacement)
    BY <1>2 DEF Resolved
  <2>2. modrm # NoModRm
    BY <1>2 DEF LacksModRm, t
  <2>3. inst.has_modrm /\ Signed(displacement, d)
    BY <2>2 DEF NumbersInPlace, DisplacementIsHeld, d
  <2>4. Spells(op, d, r) /\ op.kind \notin ImmediateKinds
    BY <1>2, <2>1, <2>3, ModRmIsSpelt
  <2> QED
    BY <2>3, <2>4, Zenon DEF t, r, d
<1>3. CASE t \notin ModRmTemplates
  <2>1. op = ImmediateOperand(t, r)
    BY <1>3 DEF Resolved
  <2>2. t \in OperandTemplate \ ModRmTemplates
    BY <1>1, <1>3
  <2>3. /\ Spells(op, d, r) /\ op.kind # "addr16"
        /\ op.kind \in ImmediateKinds => ImmediateWidth(t) # 0
    BY <1>1, <2>1, <2>2, ImmediateIsSpelt
  <2> QED
    BY <2>3, Zenon DEF t, r, d
<1> QED
  BY <1>2, <1>3

\* Recording the bytes of an operand leaves the displacement where it is.
LEMMA RecordingKeepsDisplacement ==
  ASSUME TypeOK, Tiled(inst), inst.has_modrm,
         NEW k \in {1, 2}, CanRead(ImmediateWidth(Template(k))), NEW j,
         LET rec == Recorded(Template(k), Read(ImmediateWidth(Template(k))))
         IN SameHead(rec, j) /\ j.instruction_bytes = rec.instruction_bytes
  PROVE  DisplacementOf(j) = DisplacementOf(inst)
<1> DEFINE r   == Read(ImmediateWidth(Template(k)))
           rec == Recorded(Template(k), r)
<1>1. /\ r \in Seq(Byte) /\ SameHead(inst, rec)
      /\ rec.instruction_bytes = inst.instruction_bytes \o r
  BY RecordedFields
<1>2. SameHead(inst, j) /\ j.instruction_bytes = inst.instruction_bytes \o r
  <2> HIDE DEF r
  <2> QED
    BY <1>1 DEF SameHead, r
<1>3. inst \in InstructionRecord
  BY Zenon DEF TypeOK
<1> HIDE DEF r
<1> QED
  BY <1>1, <1>2, <1>3, DisplacementStays

\* An empty sequence in front of another is not there, nor behind it.
LEMMA NothingAdded ==
  ASSUME NEW s \in Seq(Byte)
  PROVE  << >> \o s = s /\ s \o << >> = s
BY ConcatEmptySeq

LEMMA NumbersOperand1 ==
  TypeOK /\ PartsInPlace /\ NumbersInPlace /\ ResolveOperand1 => NumbersInPlace'
<1> SUFFICES ASSUME TypeOK, PartsInPlace, NumbersInPlace, ResolveOperand1
             PROVE  NumbersInPlace'
  OBVIOUS
<1> DEFINE w   == ImmediateWidth(Template(1))
           r   == Read(w)
           rec == Recorded(Template(1), r)
           op  == Resolved(Template(1), r)
<1>1. CanRead(w) /\ pc = "operand1"
  BY DEF ResolveOperand1, Template
<1>2. CASE LacksModRm(Template(1))
  <2>1. Return("AttributeError", Blank)
    BY <1>2 DEF ResolveOperand1, ModRmIsNone, Template
  <2> QED
    BY <2>1, NumbersReturn, Zenon
<1>3. CASE ~LacksModRm(Template(1))
  <2>1. /\ inst' = [rec EXCEPT !.operand1 = op] /\ pc' = "operand2"
        /\ row' = row /\ modrm' = modrm /\ displacement' = displacement
    BY <1>3 DEF ResolveOperand1, Template
  <2>2. /\ rec \in InstructionRecord /\ rec.immediate_bytes = inst.immediate_bytes \o r
        /\ SameHead(inst, rec) /\ r \in Seq(Byte) /\ Len(r) = w
    BY <1>1, RecordedFields
  <2>3. /\ Spells(op, DisplacementOf(inst), r)
        /\ op.kind = "addr16" => inst.has_modrm
        /\ op.kind \in ImmediateKinds => w # 0
    BY <1>1, <1>3, ResolvedIsSpelt
  <2>4. inst.immediate_bytes = << >> /\ Tiled(inst)
    BY <1>1 DEF PartsInPlace, NumbersInPlace, FirstIsSpelt
  <2>5. Template(1)' = Template(1)
    BY <2>1 DEF Template
  <2> HIDE DEF rec, op, w, r
  <2>6. /\ inst'.operand1 = op /\ inst'.immediate_bytes = rec.immediate_bytes
        /\ SameHead(rec, inst') /\ inst'.instruction_bytes = rec.instruction_bytes
    BY <2>1, <2>2 DEF InstructionRecord, SameHead
  <2>7. inst'.immediate_bytes = r
    BY <2>2, <2>4, <2>6, NothingAdded, Zenon
  <2>8. inst'.has_modrm = inst.has_modrm
    BY <2>2, <2>6, Zenon DEF SameHead
  <2>9. inst.has_modrm => DisplacementOf(inst') = DisplacementOf(inst)
    BY <1>1, <2>4, <2>6, RecordingKeepsDisplacement DEF rec, r, w
  <2>10. Spells(inst'.operand1, DisplacementOf(inst'), inst'.immediate_bytes)
    BY <2>3, <2>6, <2>7, <2>9, SpellingStays, Zenon
  <2>11. w = 0 => inst'.immediate_bytes = << >>
    BY <2>2, <2>7, EmptySeq
  <2>12. modrm' # NoModRm =>
           inst'.has_modrm /\ Signed(displacement', DisplacementOf(inst'))
    <3>1. modrm # NoModRm => inst.has_modrm /\ Signed(displacement, DisplacementOf(inst))
      BY <1>1 DEF NumbersInPlace, DisplacementIsHeld
    <3> QED
      BY <2>1, <2>8, <2>9, <3>1, Zenon
  <2>13. /\ inst'.operand1.kind = "addr16" => inst'.has_modrm
         /\ inst'.operand1.kind \in ImmediateKinds => ImmediateWidth(Template(1))' # 0
         /\ ImmediateWidth(Template(1))' = 0 => inst'.immediate_bytes = << >>
    BY <2>3, <2>5, <2>6, <2>8, <2>11, Zenon DEF w
  <2> QED
    BY <2>1, <2>10, <2>12, <2>13
       DEF NumbersInPlace, DisplacementIsHeld, FirstIsSpelt, OperandsSpellTheirBytes, Returned
<1> QED
  BY <1>2, <1>3

\* The second operand's bytes come behind the first's or are the only ones.
LEMMA NumbersOperand2 ==
  ASSUME OneImmediate
  PROVE  TypeOK /\ PartsInPlace /\ NumbersInPlace /\ ResolveOperand2 => NumbersInPlace'
<1> SUFFICES ASSUME TypeOK, PartsInPlace, NumbersInPlace, ResolveOperand2
             PROVE  NumbersInPlace'
  OBVIOUS
<1> DEFINE w   == ImmediateWidth(Template(2))
           r   == Read(w)
           rec == Recorded(Template(2), r)
           op  == Resolved(Template(2), r)
           all == [rec EXCEPT !.operand2 = op, !.is_complete = TRUE]
           m   == inst.immediate_bytes
           d   == DisplacementOf(inst)
<1>1. CanRead(w) /\ pc = "operand2"
  BY DEF ResolveOperand2, Template
<1>2. CASE LacksModRm(Template(2))
  <2>1. Return("AttributeError", Blank)
    BY <1>2 DEF ResolveOperand2, ModRmIsNone, Template
  <2> QED
    BY <2>1, NumbersReturn, Zenon
<1>3. CASE ~LacksModRm(Template(2))
  <2>1. Return("instruction", all)
    BY <1>3 DEF ResolveOperand2, Template
  <2>2. /\ rec \in InstructionRecord /\ rec.immediate_bytes = m \o r
        /\ SameHead(inst, rec) /\ r \in Seq(Byte) /\ Len(r) = w /\ rec.operand1 = inst.operand1
    BY <1>1, RecordedFields
  <2>3. /\ Spells(op, d, r)
        /\ op.kind = "addr16" => inst.has_modrm
        /\ op.kind \in ImmediateKinds => w # 0
    BY <1>1, <1>3, ResolvedIsSpelt
  <2>4. /\ Spells(inst.operand1, d, m)
        /\ inst.operand1.kind = "addr16" => inst.has_modrm
        /\ inst.operand1.kind \in ImmediateKinds => ImmediateWidth(Template(1)) # 0
        /\ ImmediateWidth(Template(1)) = 0 => m = << >>
    BY <1>1, Zenon DEF NumbersInPlace, FirstIsSpelt
  <2>5. Tiled(inst)
    BY <1>1 DEF PartsInPlace
  <2>6. ImmediateWidth(Template(1)) = 0 \/ w = 0
    <3>1. row \in RowIndex
      BY Zenon DEF TypeOK
    <3> QED
      BY <3>1, Zenon DEF OneImmediate, Template
  <2>7. m \in Seq(Byte)
    <3>1. inst \in InstructionRecord
      BY Zenon DEF TypeOK
    <3> QED
      BY <3>1, FieldsAreTyped
  <2> HIDE DEF rec, op, w, r, m, d
  <2>8. /\ all.operand1 = inst.operand1 /\ all.operand2 = op /\ all.immediate_bytes = m \o r
        /\ SameHead(rec, all) /\ all.instruction_bytes = rec.instruction_bytes
    BY <2>2 DEF InstructionRecord, SameHead
  <2> HIDE DEF all
  <2>9. inst.has_modrm => DisplacementOf(all) = d
    BY <1>1, <2>5, <2>8, RecordingKeepsDisplacement DEF rec, r, w, d
  <2>10. inst.operand1.kind \in ImmediateKinds => all.immediate_bytes = m
    <3>1. inst.operand1.kind \in ImmediateKinds => w = 0
      BY <2>4, <2>6, Zenon
    <3>2. w = 0 => r = << >>
      BY <2>2, EmptySeq
    <3> QED
      BY <2>7, <2>8, <3>1, <3>2, NothingAdded, Zenon
  <2>11. op.kind \in ImmediateKinds => all.immediate_bytes = r
    <3>1. op.kind \in ImmediateKinds => m = << >>
      BY <2>3, <2>4, <2>6, Zenon
    <3> QED
      BY <2>2, <2>8, <3>1, NothingAdded, Zenon
  <2>12. Spells(all.operand1, DisplacementOf(all), all.immediate_bytes)
    BY <2>4, <2>8, <2>9, <2>10, SpellingStays, Zenon
  <2>13. Spells(all.operand2, DisplacementOf(all), all.immediate_bytes)
    BY <2>3, <2>8, <2>9, <2>11, SpellingStays, Zenon
  <2> QED
    BY <2>1, <2>12, <2>13, NumbersReturn, Zenon
<1> QED
  BY <1>2, <1>3

LEMMA NumbersNext ==
  ASSUME OneImmediate
  PROVE  TypeOK /\ Bookkeeping /\ PartsInPlace /\ NumbersInPlace /\ [Next]_vars => NumbersInPlace'
<1> SUFFICES ASSUME TypeOK, Bookkeeping, PartsInPlace, NumbersInPlace, [Next]_vars
             PROVE  NumbersInPlace'
  OBVIOUS
<1>1. CASE RunsOutInPhase
  <2>1. Return(EndOfInput, Blank) /\ EndOfInput # "instruction"
    BY <1>1, RunningOut DEF EndOfInput
  <2> QED
    BY <2>1, NumbersReturn, Zenon
<1>2. CASE UNCHANGED vars
  BY <1>2 DEF vars, local, NumbersInPlace, DisplacementIsHeld, FirstIsSpelt,
              OperandsSpellTheirBytes, Returned, Template
<1> QED
  BY <1>1, <1>2, NumbersCall, NumbersPrefixOrOpcode, NumbersModRm, NumbersOperand1,
     NumbersOperand2, Zenon DEF Next, DecodeStep

\* For every input, and every table whose rows take at most one immediate: the
\* numbers a returned operand carries are the ones its bytes spell.
THEOREM NumbersAreSpelt ==
  ASSUME OneImmediate
  PROVE  Spec => []OperandsSpellTheirBytes
<1>1. NumbersInPlace => OperandsSpellTheirBytes
  BY DEF NumbersInPlace
<1>2. TypeOK /\ Bookkeeping /\ PartsInPlace /\ NumbersInPlace /\ [Next]_vars => NumbersInPlace'
  BY NumbersNext
<1> QED
  BY <1>1, <1>2, NumbersInit, TypeCorrect, BookkeepingHolds, PartsHold, PTL DEF Spec
=============================================================================
