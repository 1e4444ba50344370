-------------------------- MODULE LoadedImage_proofs --------------------------
(***************************************************************************)
(* Theorems about MzImage, for every set of files and load segments, and   *)
(* about LoadedImage, for every set of segment maps besides.               *)
(***************************************************************************)
EXTENDS LoadedImage, FiniteSetTheorems, SequenceTheorems, WellFoundedInduction, TLAPS

-----------------------------------------------------------------------------
(* Byte strings, words and slices.                                         *)

\* The two intervals of the model as inequalities; both stay folded below.
LEMMA ByteRange == \A b : b \in Byte <=> b \in Int /\ 0 <= b /\ b <= 255
BY DEF Byte

LEMMA WordRange == \A w : w \in Word16 <=> w \in Int /\ 0 <= w /\ w <= 65535
<1>1. \A hi \in Int : \A w : w \in 0..hi <=> w \in Int /\ 0 <= w /\ w <= hi
  OBVIOUS
<1> DEFINE hi == 65535
<1>2. Word16 = 0..hi /\ hi \in Int
  BY DEF Word16
<1> HIDE DEF hi
<1>3. \A w : w \in Word16 <=> w \in Int /\ 0 <= w /\ w <= hi
  BY <1>1, <1>2
<1> QED
  BY <1>3 DEF hi

\* A function on an initial segment is a byte string of that many bytes.
LEMMA IntervalIsBytes ==
  ASSUME NEW n \in Int, NEW f \in [0..(n - 1) -> Byte]
  PROVE  IsBytes(f) /\ Size(f) = IF n > 0 THEN n ELSE 0
<1>1. DOMAIN f = 0..(n - 1)
  OBVIOUS
<1>2. Size(f) = IF 0 > n - 1 THEN 0 ELSE (n - 1) - 0 + 1
  BY <1>1, FS_Interval DEF Size
<1>3. Size(f) = IF n > 0 THEN n ELSE 0
  BY <1>2
<1>4. Size(f) \in Nat /\ 0..(Size(f) - 1) = 0..(n - 1)
  BY <1>3
<1> QED
  BY <1>3, <1>4 DEF IsBytes

\* What a byte string has at an offset inside it.
LEMMA BytesAreBytes ==
  ASSUME NEW f, IsBytes(f), NEW p \in Int, 0 <= p, p < Size(f)
  PROVE  p \in DOMAIN f /\ f[p] \in Int /\ 0 <= f[p] /\ f[p] <= 255
BY ByteRange DEF IsBytes

\* Two bytes make an unsigned 16-bit number.
LEMMA WordsAreTyped ==
  ASSUME NEW f, IsBytes(f), NEW p \in Int, 0 <= p, p + 2 <= Size(f)
  PROVE  Word(f, p) \in Int /\ 0 <= Word(f, p) /\ Word(f, p) <= 65535
<1>0. Size(f) \in Int
  BY DEF IsBytes
<1>1. f[p] \in Int /\ 0 <= f[p] /\ f[p] <= 255
  BY <1>0, BytesAreBytes
<1>2. f[p + 1] \in Int /\ 0 <= f[p + 1] /\ f[p + 1] <= 255
  BY <1>0, BytesAreBytes
<1> QED
  BY <1>1, <1>2 DEF Word

\* A slice of a byte string is one, whatever its bounds.
LEMMA SliceIsBytes ==
  ASSUME NEW f, IsBytes(f), NEW from \in Int, NEW to \in Int
  PROVE  IsBytes(Slice(f, from, to))
<1> DEFINE n     == Size(f)
           first == Bound(from, n)
           last  == Bound(to, n)
<1>1. n \in Int /\ n >= 0
  BY DEF IsBytes
<1>2. first \in Int /\ 0 <= first /\ last \in Int /\ last <= n
  BY <1>1 DEF Bound
<1>3. Slice(f, from, to) = [p \in 0..((last - first) - 1) |-> f[first + p]]
  BY DEF Slice
<1> HIDE DEF n, first, last
<1>4. ASSUME NEW p \in 0..((last - first) - 1)
      PROVE  f[first + p] \in Byte
  <2>1. p \in Int /\ 0 <= first + p /\ first + p < n
    BY <1>1, <1>2, <1>4
  <2> QED
    BY <1>2, <2>1, BytesAreBytes, ByteRange DEF n
<1>5. Slice(f, from, to) \in [0..((last - first) - 1) -> Byte]
  BY <1>3, <1>4
<1>6. last - first \in Int
  BY <1>2
<1> QED
  BY <1>5, <1>6, IntervalIsBytes

-----------------------------------------------------------------------------
(* Types.                                                                  *)

\* The type invariant needs that whatever comes after the header has one.
HeaderSeen == pc \in {"table", "fixups", "loaded"} => IsMz

\* The numbers of a header.
LEMMA HeaderFields ==
  ASSUME IsBytes(data), IsMz
  PROVE  /\ reloc_count \in Int /\ reloc_table \in Int /\ 0 <= reloc_table
         /\ header_size \in Int /\ end \in Int
<1>1. Size(data) \in Int /\ Size(data) >= 28
  BY DEF IsMz, IsBytes
<1>2. \A p \in {2, 4, 6, 8, 24} : Word(data, p) \in Int /\ 0 <= Word(data, p)
  BY <1>1, WordsAreTyped
<1>3. reloc_count \in Int /\ reloc_table \in Int /\ 0 <= reloc_table
  BY <1>2 DEF reloc_count, reloc_table
<1>4. header_size \in Int
  BY <1>2 DEF header_size
<1>5. declared \in Int
  BY <1>2 DEF declared, page_count, last_page_bytes, PageSize
<1> QED
  BY <1>1, <1>3, <1>4, <1>5 DEF end

\* An entry of the table is a linear offset and a segment.
LEMMA EntriesAreTyped ==
  ASSUME IsBytes(data), IsMz, relocations \in Seq(Nat \X Word16), HasEntry
  PROVE  Entry \in Nat \X Word16
<1>1. at \in Int /\ 0 <= at
  BY HeaderFields DEF at, RelocEntrySize
<1>2. at + 4 <= Size(data) /\ Size(data) \in Int
  BY DEF HasEntry, RelocEntrySize, IsBytes
<1>3. Word(data, at) \in Int /\ 0 <= Word(data, at)
  BY <1>1, <1>2, WordsAreTyped
<1>4. Word(data, at + 2) \in Int /\ 0 <= Word(data, at + 2) /\ Word(data, at + 2) <= 65535
  BY <1>1, <1>2, WordsAreTyped
<1> QED
  BY <1>3, <1>4, WordRange DEF Entry

\* The two bytes of a word that is patched, and the word they make.
LEMMA FixedUpBytes ==
  ASSUME NEW w \in Int, 0 <= w, w <= 65535
  PROVE  /\ w % 256 \in Byte /\ w \div 256 \in Byte
         /\ (w % 256) + 256 * (w \div 256) = w
BY ByteRange

\* The word a fixup writes fits 16 bits.
LEMMA FixedUpIsTyped ==
  ASSUME IsBytes(image), offset \in Int, 0 <= offset, Fits, load_segment \in Int
  PROVE  FixedUp \in Int /\ 0 <= FixedUp /\ FixedUp <= 65535
<1>1. Word(image, offset) \in Int
  BY WordsAreTyped DEF Fits
<1> QED
  BY <1>1 DEF FixedUp

Typed == TypeOK /\ HeaderSeen

\* In the fixup loop the image is a byte string of the load module's extent.
LEMMA ImageIsBytes ==
  ASSUME TypeOK, pc \in {"fixups", "loaded"}
  PROVE  IsBytes(image) /\ DOMAIN image = DOMAIN raw /\ Size(image) = Size(raw)
<1>1. DOMAIN image = DOMAIN raw /\ image \in [DOMAIN raw -> Byte]
  BY DEF TypeOK
<1>2. Size(image) = Size(raw)
  BY <1>1 DEF Size
<1>3. DOMAIN raw = 0..(Size(raw) - 1) /\ Size(raw) \in Nat
  BY DEF TypeOK, IsBytes
<1> QED
  BY <1>1, <1>2, <1>3 DEF IsBytes

\* The entry the fixup loop is at.
LEMMA OffsetIsTyped ==
  ASSUME TypeOK, applied < Len(relocations)
  PROVE  offset \in Nat /\ applied + 1 \in DOMAIN relocations /\ applied \in Nat
<1>1. applied \in Nat /\ Len(relocations) \in Nat /\ applied + 1 \in 1..Len(relocations)
  BY DEF TypeOK
<1>2. relocations[applied + 1] \in Nat \X Word16
  BY <1>1 DEF TypeOK
<1> QED
  BY <1>1, <1>2 DEF offset, TypeOK

LEMMA InitTyped == Init => Typed
<1> SUFFICES ASSUME Init PROVE Typed
  OBVIOUS
<1>1. DOMAIN Empty = {} /\ Empty \in [{} -> Byte]
  BY DEF Empty
<1>2. IsBytes(Empty)
  <2>1. Size(Empty) = 0
    BY <1>1, FS_EmptySet DEF Size
  <2>2. 0..(0 - 1) = {}
    OBVIOUS
  <2> QED
    BY <1>1, <2>1, <2>2 DEF IsBytes
<1>3. << >> \in Seq(Nat \X Word16)
  BY EmptySeq
<1>4. 0 \in 0..Len(<< >>)
  BY EmptySeq
<1> QED
  BY <1>2, <1>3, <1>4 DEF Init, Typed, TypeOK, HeaderSeen

LEMMA NextTyped == Typed /\ [Next]_vars => Typed'
<1> SUFFICES ASSUME Typed, [Next]_vars PROVE Typed'
  OBVIOUS
<1>0. IsBytes(data) /\ load_segment \in Int
  BY FilesAssumption, LoadSegmentsAssumption DEF Typed, TypeOK
<1>1. CASE Refuse
  BY <1>1 DEF Typed, TypeOK, HeaderSeen, Refuse
<1>2. CASE ReadHeader
  <2>1. IsBytes(raw')
    BY <1>0, <1>2, HeaderFields, SliceIsBytes DEF ReadHeader
  <2>2. pc' = "table" /\ IsMz'
    BY <1>2 DEF ReadHeader, IsMz
  <2> QED
    BY <1>2, <2>1, <2>2 DEF Typed, TypeOK, HeaderSeen, ReadHeader
<1>3. CASE ReadEntry
  <2>1. Entry \in Nat \X Word16
    BY <1>0, <1>3, EntriesAreTyped DEF ReadEntry, Typed, TypeOK, HeaderSeen
  <2>2. relocations' \in Seq(Nat \X Word16) /\ applied' = 0 /\ applied' \in 0..Len(relocations')
    BY <1>3, <2>1 DEF ReadEntry, Typed, TypeOK
  <2>3. IsMz'
    BY <1>3 DEF ReadEntry, Typed, HeaderSeen, IsMz
  <2> QED
    BY <1>3, <2>2, <2>3 DEF Typed, TypeOK, HeaderSeen, ReadEntry
<1>4. CASE TableEnds
  <2>1. image' \in [DOMAIN raw' -> Byte] /\ pc' = "fixups"
    BY <1>4 DEF TableEnds, Typed, TypeOK, IsBytes
  <2>2. IsMz'
    BY <1>4 DEF TableEnds, Typed, HeaderSeen, IsMz
  <2> QED
    BY <1>4, <2>1, <2>2 DEF Typed, TypeOK, HeaderSeen, TableEnds
<1>5. CASE Fixup
  <2>1. IsBytes(image) /\ DOMAIN image = DOMAIN raw
    BY <1>5, ImageIsBytes DEF Fixup, Typed
  <2>2. offset \in Nat /\ applied \in Nat
    BY <1>5, OffsetIsTyped DEF Fixup, Typed
  <2>3. FixedUp % 256 \in Byte /\ FixedUp \div 256 \in Byte
    BY <1>0, <1>5, <2>1, <2>2, FixedUpIsTyped, FixedUpBytes DEF Fixup
  <2>4. image' \in [DOMAIN raw' -> Byte]
    BY <1>5, <2>1, <2>3 DEF Fixup, Typed, TypeOK
  <2>5. applied' \in 0..Len(relocations')
    BY <1>5, <2>2 DEF Fixup, Typed, TypeOK
  <2>6. IsMz' /\ pc' = "fixups"
    BY <1>5 DEF Fixup, Typed, HeaderSeen, IsMz
  <2> QED
    BY <1>5, <2>4, <2>5, <2>6 DEF Typed, TypeOK, HeaderSeen, Fixup
<1>6. CASE SkipEntry
  <2>1. applied' \in 0..Len(relocations')
    BY <1>6 DEF SkipEntry, Typed, TypeOK
  <2>2. IsMz' /\ pc' = "fixups"
    BY <1>6 DEF SkipEntry, Typed, HeaderSeen, IsMz
  <2> QED
    BY <1>6, <2>1, <2>2 DEF Typed, TypeOK, HeaderSeen, SkipEntry
<1>7. CASE FixupsEnd
  <2>1. IsMz' /\ pc' = "loaded"
    BY <1>7 DEF FixupsEnd, Typed, HeaderSeen, IsMz
  <2> QED
    BY <1>7, <2>1 DEF Typed, TypeOK, HeaderSeen, FixupsEnd
<1>8. CASE UNCHANGED vars
  <2>1. IsMz' <=> IsMz
    BY <1>8 DEF vars, IsMz
  <2> QED
    BY <1>8, <2>1 DEF vars, Typed, TypeOK, HeaderSeen
<1> QED
  BY <1>1, <1>2, <1>3, <1>4, <1>5, <1>6, <1>7, <1>8 DEF Next

\* The type invariant: the image stays a byte string of the extent of the load
\* module, whatever the fixups overflow and wherever the table points.
THEOREM TypeCorrect == Spec => []TypeOK
<1>1. Typed => TypeOK
  BY DEF Typed
<1> QED
  BY <1>1, InitTyped, NextTyped, PTL DEF Spec

-----------------------------------------------------------------------------
(* What the fixups do to the load module.                                  *)

\* The fixup loop counts the entry it patches in, once.
LEMMA DoneGrows ==
  ASSUME Typed, Fixup
  PROVE  /\ Done' = Done \union {applied + 1}
         /\ applied + 1 \notin Done
         /\ applied + 1 \in DOMAIN relocations
<1>1. applied \in Nat /\ applied + 1 \in DOMAIN relocations
  BY OffsetIsTyped DEF Typed, Fixup
<1>2. relocations[applied + 1][1] + 2 <= Size(raw)
  BY ImageIsBytes DEF Typed, Fixup, Fits, offset
<1>3. relocations' = relocations /\ raw' = raw /\ applied' = applied + 1
  BY DEF Fixup
<1>4. 1..(applied + 1) = (1..applied) \union {applied + 1} /\ applied + 1 \notin 1..applied
  BY <1>1
<1>5. Done' = {k \in 1..(applied + 1) : relocations[k][1] + 2 <= Size(raw)}
  BY <1>3 DEF Done, Size
<1>6. Done' = Done \union {applied + 1}
  BY <1>2, <1>4, <1>5 DEF Done
<1> QED
  BY <1>1, <1>4, <1>6 DEF Done

\* An entry that does not fit is not counted.
LEMMA DoneStays ==
  ASSUME Typed, SkipEntry
  PROVE  Done' = Done
<1>1. applied \in Nat /\ offset \in Nat
  BY OffsetIsTyped DEF Typed, SkipEntry
<1>2. ~(relocations[applied + 1][1] + 2 <= Size(raw))
  BY ImageIsBytes DEF Typed, SkipEntry, Fits, offset
<1>3. relocations' = relocations /\ raw' = raw /\ applied' = applied + 1
  BY DEF SkipEntry
<1>4. 1..(applied + 1) = (1..applied) \union {applied + 1}
  BY <1>1
<1>5. Done' = {k \in 1..(applied + 1) : relocations[k][1] + 2 <= Size(raw)}
  BY <1>3 DEF Done, Size
<1> QED
  BY <1>2, <1>4, <1>5 DEF Done

\* No entry is counted before the loop, so nothing has changed.
LEMMA DoneStartsEmpty ==
  ASSUME Typed, TableEnds
  PROVE  Done' = {} /\ image' = raw' /\ applied' = 0
<1>1. applied' = 0 /\ image' = raw'
  BY DEF Typed, TypeOK, TableEnds
<1>2. 1..0 = {}
  OBVIOUS
<1> QED
  BY <1>1, <1>2 DEF Done

\* Before the loop there is nothing to say of the image.
LEMMA OnlyTargetsChangeInit == Init => OnlyTargetsChange
BY DEF Init, OnlyTargetsChange

LEMMA OnlyTargetsChangeNext ==
  Typed /\ OnlyTargetsChange /\ [Next]_vars => OnlyTargetsChange'
<1> SUFFICES ASSUME Typed, OnlyTargetsChange, [Next]_vars PROVE OnlyTargetsChange'
  OBVIOUS
<1>1. CASE Refuse
  BY <1>1 DEF Refuse, OnlyTargetsChange
<1>2. CASE ReadHeader
  BY <1>2 DEF ReadHeader, OnlyTargetsChange
<1>3. CASE ReadEntry
  BY <1>3 DEF ReadEntry, OnlyTargetsChange
<1>4. CASE TableEnds
  BY <1>4, DoneStartsEmpty DEF OnlyTargetsChange
<1>5. CASE Fixup
  <2>1. Done' = Done \union {applied + 1}
    BY <1>5, DoneGrows
  <2>2. \A k : Patched(k)' = Patched(k)
    BY <1>5 DEF Fixup, Patched
  <2>3. Patched(applied + 1) = {offset, offset + 1}
    BY DEF Patched, offset
  <2>4. ASSUME NEW p \in DOMAIN image', \A k \in Done' : p \notin Patched(k)'
        PROVE  image'[p] = raw'[p]
    <3>1. p \in DOMAIN image /\ p # offset /\ p # offset + 1
      BY <1>5, <2>1, <2>2, <2>3, <2>4 DEF Fixup
    <3>2. image[p] = raw[p]
      BY <1>5, <2>1, <2>2, <2>4, <3>1 DEF Fixup, OnlyTargetsChange
    <3> QED
      BY <1>5, <3>1, <3>2 DEF Fixup
  <2> QED
    BY <2>4 DEF OnlyTargetsChange
<1>6. CASE SkipEntry
  <2>1. \A k : Patched(k)' = Patched(k)
    BY <1>6 DEF SkipEntry, Patched
  <2> QED
    BY <1>6, <2>1, DoneStays DEF SkipEntry, OnlyTargetsChange
<1>7. CASE FixupsEnd
  BY <1>7 DEF FixupsEnd, OnlyTargetsChange, Done, Patched
<1>8. CASE UNCHANGED vars
  BY <1>8 DEF vars, OnlyTargetsChange, Done, Patched
<1> QED
  BY <1>1, <1>2, <1>3, <1>4, <1>5, <1>6, <1>7, <1>8 DEF Next

\* A byte of the load module that no relocation entry names is, throughout the
\* fixups and after them, the byte of the file.
THEOREM UntouchedBytesStay == Spec => []OnlyTargetsChange
BY InitTyped, NextTyped, OnlyTargetsChangeInit, OnlyTargetsChangeNext, PTL DEF Spec

-----------------------------------------------------------------------------
(* What a relocated word holds.                                            *)

\* FixupsAddUp speaks of the words the loop has patched; every word of the
\* module, those it will patch and those it will not, has the same sum.
AllSums ==
  pc \in {"fixups", "loaded"} =>
    \A o \in Nat : o + 2 <= Size(raw) => Straddled(o) \/ HoldsItsSum(o)

Named(o) == {l \in Done : relocations[l][1] = o}

\* The sum after one more load segment.
LEMMA OneMore ==
  ASSUME NEW w \in Int, NEW t \in Int, NEW s \in Int
  PROVE  (((w + t * s) % 65536) + s) % 65536 = (w + (t + 1) * s) % 65536
<1> DEFINE x == w + t * s
<1>1. t * s \in Int /\ (t + 1) * s = t * s + s
  OBVIOUS
<1>2. x \in Int /\ w + (t + 1) * s = x + s
  BY <1>1
<1> HIDE DEF x
<1>3. ((x % 65536) + s) % 65536 = (x + s) % 65536
  BY <1>2
<1> QED
  BY <1>2, <1>3 DEF x

\* How often an entry was counted is a number.
LEMMA NamedIsFinite ==
  ASSUME Typed, NEW o
  PROVE  IsFiniteSet(Named(o)) /\ Times(o) \in Nat
<1>1. applied \in Int
  BY DEF Typed, TypeOK
<1>2. IsFiniteSet(1..applied)
  BY <1>1, FS_Interval
<1>3. Named(o) \in SUBSET (1..applied)
  BY DEF Named, Done
<1>4. IsFiniteSet(Named(o))
  BY <1>2, <1>3, FS_Subset
<1> QED
  BY <1>4, FS_CardinalityType DEF Times, Named

\* A word no entry has named yet holds what the file has.
LEMMA NothingAdded ==
  ASSUME Typed, TableEnds, NEW o \in Nat, o + 2 <= Size(raw)
  PROVE  HoldsItsSum(o)'
<1>1. Done' = {} /\ image' = raw' /\ raw' = raw
  BY DoneStartsEmpty DEF TableEnds
<1>2. Times(o)' = 0
  BY <1>1, FS_EmptySet DEF Times
<1>3. Word(raw, o) \in Int /\ 0 <= Word(raw, o) /\ Word(raw, o) <= 65535
  BY WordsAreTyped DEF Typed, TypeOK
<1>4. load_segment' = load_segment /\ load_segment \in Int
  BY LoadSegmentsAssumption DEF TableEnds, Typed, TypeOK
<1>5. Word(raw, o) = (Word(raw, o) + 0 * load_segment) % 65536
  BY <1>3, <1>4
<1>6. Word(image', o) = Word(raw, o) /\ Word(raw', o) = Word(raw, o)
  BY <1>1
<1> QED
  BY <1>2, <1>4, <1>5, <1>6 DEF HoldsItsSum

\* The two bytes a fixup writes make the word it computed, and no word apart
\* from it changes.
LEMMA WordsAfterFixup ==
  ASSUME Typed, Fixup, NEW o \in Nat, o + 2 <= Size(raw), o \notin {offset - 1, offset + 1}
  PROVE  Word(image', o) = IF o = offset THEN FixedUp ELSE Word(image, o)
<1>1. offset \in Nat /\ IsBytes(image) /\ DOMAIN image = DOMAIN raw /\ Size(image) = Size(raw)
  BY OffsetIsTyped, ImageIsBytes DEF Typed, Fixup
<1>2. load_segment \in Int
  BY LoadSegmentsAssumption DEF Typed, TypeOK
<1>3. (FixedUp % 256) + 256 * (FixedUp \div 256) = FixedUp
  BY <1>1, <1>2, FixedUpIsTyped, FixedUpBytes DEF Fixup
<1>4. Size(raw) \in Int
  BY DEF Typed, TypeOK, IsBytes
<1>5. o \in DOMAIN image /\ o + 1 \in DOMAIN image
  BY <1>1, <1>4, BytesAreBytes
<1>6. image' = [image EXCEPT ![offset] = FixedUp % 256, ![offset + 1] = FixedUp \div 256]
  BY DEF Fixup
<1>7. CASE o = offset
  <2>1. image'[o] = FixedUp % 256 /\ image'[o + 1] = FixedUp \div 256
    BY <1>1, <1>5, <1>6, <1>7
  <2> QED
    BY <1>3, <1>7, <2>1 DEF Word
<1>8. CASE o # offset
  <2>1. image'[o] = image[o] /\ image'[o + 1] = image[o + 1]
    BY <1>1, <1>5, <1>6, <1>8
  <2> QED
    BY <1>8, <2>1 DEF Word
<1> QED
  BY <1>7, <1>8

\* One fixup keeps the sum of every word it does not straddle.
LEMMA FixupKeepsSum ==
  ASSUME Typed, Fixup, AllSums, NEW o \in Nat, o + 2 <= Size(raw), ~Straddled(o)'
  PROVE  HoldsItsSum(o)'
<1>1. /\ Done' = Done \union {applied + 1} /\ applied + 1 \notin Done
      /\ relocations' = relocations /\ raw' = raw /\ load_segment' = load_segment
  BY DoneGrows DEF Fixup
<1>2. offset \in Nat /\ load_segment \in Int
  BY OffsetIsTyped, LoadSegmentsAssumption DEF Typed, TypeOK, Fixup
<1>3. o \notin {offset - 1, offset + 1}
  BY <1>1, <1>2 DEF Straddled, offset
<1>4. ~Straddled(o)
  BY <1>1 DEF Straddled
<1>5. Word(image, o) = (Word(raw, o) + Times(o) * load_segment) % 65536
  BY <1>4 DEF AllSums, HoldsItsSum, Fixup
<1>6. Word(image', o) = IF o = offset THEN FixedUp ELSE Word(image, o)
  BY <1>3, WordsAfterFixup
<1>7. IsFiniteSet(Named(o)) /\ Times(o) \in Nat /\ Word(raw, o) \in Int
  BY NamedIsFinite, WordsAreTyped DEF Typed, TypeOK
<1>8. CASE o = offset
  <2>1. Named(o)' = Named(o) \union {applied + 1}
    BY <1>1, <1>8 DEF Named, offset
  <2>2. applied + 1 \notin Named(o)
    BY <1>1 DEF Named
  <2>3. Times(o)' = Times(o) + 1
    BY <1>7, <2>1, <2>2, FS_AddElement DEF Times, Named
  <2>4. Word(image', o) = (Word(image, o) + load_segment) % 65536
    BY <1>6, <1>8 DEF FixedUp
  <2>5. Word(image', o) = (Word(raw, o) + (Times(o) + 1) * load_segment) % 65536
    BY <1>2, <1>5, <1>7, <2>4, OneMore
  <2> QED
    BY <1>1, <2>3, <2>5 DEF HoldsItsSum
<1>9. CASE o # offset
  <2>1. Named(o)' = Named(o)
    BY <1>1, <1>9 DEF Named, offset
  <2>2. Times(o)' = Times(o)
    BY <2>1 DEF Times, Named
  <2> QED
    BY <1>1, <1>5, <1>6, <1>9, <2>2 DEF HoldsItsSum
<1> QED
  BY <1>8, <1>9

LEMMA AllSumsInit == Init => AllSums
BY DEF Init, AllSums

LEMMA AllSumsNext == Typed /\ AllSums /\ [Next]_vars => AllSums'
<1> SUFFICES ASSUME Typed, AllSums, [Next]_vars PROVE AllSums'
  OBVIOUS
<1>1. CASE Refuse
  BY <1>1 DEF Refuse, AllSums
<1>2. CASE ReadHeader
  BY <1>2 DEF ReadHeader, AllSums
<1>3. CASE ReadEntry
  BY <1>3 DEF ReadEntry, AllSums
<1>4. CASE TableEnds
  <2>1. Size(raw)' = Size(raw)
    BY <1>4 DEF TableEnds, Size
  <2> QED
    BY <1>4, <2>1, NothingAdded DEF AllSums
<1>5. CASE Fixup
  <2>1. Size(raw)' = Size(raw)
    BY <1>5 DEF Fixup, Size
  <2> QED
    BY <1>5, <2>1, FixupKeepsSum DEF AllSums
<1>6. CASE SkipEntry
  <2>1. Size(raw)' = Size(raw) /\ Done' = Done
    BY <1>6, DoneStays DEF SkipEntry, Size
  <2>2. \A o : (Straddled(o)' <=> Straddled(o)) /\ (HoldsItsSum(o)' <=> HoldsItsSum(o))
    BY <1>6, <2>1 DEF SkipEntry, Straddled, HoldsItsSum, Times
  <2> QED
    BY <1>6, <2>1, <2>2 DEF SkipEntry, AllSums
<1>7. CASE FixupsEnd
  <2>1. \A o : (Straddled(o)' <=> Straddled(o)) /\ (HoldsItsSum(o)' <=> HoldsItsSum(o))
    BY <1>7 DEF FixupsEnd, Straddled, HoldsItsSum, Times, Done
  <2> QED
    BY <1>7, <2>1 DEF FixupsEnd, AllSums, Size
<1>8. CASE UNCHANGED vars
  <2>1. \A o : (Straddled(o)' <=> Straddled(o)) /\ (HoldsItsSum(o)' <=> HoldsItsSum(o))
    BY <1>8 DEF vars, Straddled, HoldsItsSum, Times, Done
  <2> QED
    BY <1>8, <2>1 DEF vars, AllSums, Size
<1> QED
  BY <1>1, <1>2, <1>3, <1>4, <1>5, <1>6, <1>7, <1>8 DEF Next

LEMMA AllSumsCoverTargets == Typed /\ AllSums => FixupsAddUp
<1> SUFFICES ASSUME Typed, AllSums, pc \in {"fixups", "loaded"}, NEW k \in Done
             PROVE  Straddled(relocations[k][1]) \/ HoldsItsSum(relocations[k][1])
  BY DEF FixupsAddUp
<1>1. k \in 1..Len(relocations)
  BY DEF Done, Typed, TypeOK
<1>2. relocations[k] \in Nat \X Word16
  BY <1>1 DEF Typed, TypeOK
<1> QED
  BY <1>2 DEF AllSums, Done

\* A relocated word holds the linker's word plus the load segment, once for
\* every entry that names it, modulo 16 bits, for every file, every table and
\* every load segment.
THEOREM FixupsAreSums == Spec => []FixupsAddUp
BY InitTyped, NextTyped, AllSumsInit, AllSumsNext, AllSumsCoverTargets, PTL DEF Spec

-----------------------------------------------------------------------------
(* Segment maps.                                                           *)

\* A set of naturals that is not empty has a least one.
LEMMA LeastOfNaturals ==
  ASSUME NEW S, S \subseteq Nat, S # {}
  PROVE  \E x \in S : \A y \in S : x <= y
<1> DEFINE R == {ss \in Nat \X Nat : ss[1] < ss[2]}
<1>1. IsWellFoundedOn(R, Nat)
  BY NatLessThanWellFounded DEF OpToRel
<1>2. PICK t \in S : \A y \in S : ~ (<< y, t >> \in R)
  <2> HIDE DEF R
  <2> QED  BY <1>1, WFMin
<1>3. ASSUME NEW y \in S  PROVE t <= y
  <2>1. << y, t >> \in Nat \X Nat  OBVIOUS
  <2> QED  BY <1>2, <2>1
<1> QED
  BY <1>3

\* What MapsAssumption and NoneAssumption say of a map.
Mapped(map) ==
  /\ map.segments \in Seq([base : Int, size : Int])
  /\ \A k \in DOMAIN map.segments : map.segments[k] # None

\* A block of a map is two numbers, and its place a natural.
LEMMA BlocksAreTyped ==
  ASSUME NEW map, Mapped(map), NEW k \in DOMAIN map.segments
  PROVE  /\ k \in Nat /\ k >= 1
         /\ map.segments[k].base \in Int /\ map.segments[k].size \in Int
         /\ map.segments[k] # None
         /\ \A j \in Nat : 1 <= j /\ j <= k => j \in DOMAIN map.segments
<1>1. DOMAIN map.segments = 1..Len(map.segments) /\ Len(map.segments) \in Nat
  BY DEF Mapped
<1>2. map.segments[k] \in [base : Int, size : Int]
  BY <1>1, ElementOfSeq DEF Mapped
<1> QED
  BY <1>1, <1>2 DEF Mapped

\* WellFormed compares neighbours; every two blocks are in order.
LEMMA BlocksAscend ==
  ASSUME NEW map, Mapped(map), WellFormed(map),
         NEW k \in DOMAIN map.segments, NEW l \in DOMAIN map.segments, k < l
  PROVE  map.segments[k].base + map.segments[k].size <= map.segments[l].base
<1> DEFINE From(j) == map.segments[j].base
           To(j)   == map.segments[j].base + map.segments[j].size
           Late    == {j \in DOMAIN map.segments : k < j /\ ~(To(k) <= From(j))}
<1>1. \A j \in DOMAIN map.segments : j \in Nat /\ From(j) \in Int /\ To(j) \in Int
  BY BlocksAreTyped
<1>2. SUFFICES ASSUME Late # {} PROVE FALSE
  OBVIOUS
<1>3. PICK m \in Late : \A j \in Late : m <= j
  <2>1. Late \subseteq Nat
    BY <1>1
  <2> HIDE DEF Late
  <2> QED
    BY <1>2, <2>1, LeastOfNaturals
<1>4. m \in DOMAIN map.segments /\ k < m /\ ~(To(k) <= From(m)) /\ m \in Nat /\ k \in Nat
  BY <1>1, <1>3
<1>5. m - 1 \in DOMAIN map.segments /\ m - 1 \in Nat
  <2>1. m - 1 \in Nat /\ 1 <= m - 1 /\ m - 1 <= m
    BY <1>4, BlocksAreTyped
  <2> QED
    BY <1>4, <2>1, BlocksAreTyped
<1>6. To(m - 1) <= From(m)
  <2>1. m > 1
    BY <1>4, BlocksAreTyped
  <2> QED
    BY <1>4, <2>1 DEF WellFormed
<1>7. From(m - 1) < To(m - 1)
  BY <1>5, BlocksAreTyped DEF WellFormed
<1>8. CASE k = m - 1
  BY <1>4, <1>6, <1>8
<1>9. CASE k # m - 1
  <2>1. k < m - 1 /\ m - 1 \notin Late
    BY <1>3, <1>4, <1>5, <1>9
  <2>2. To(k) <= From(m - 1)
    BY <1>5, <2>1
  <2>3. To(k) \in Int /\ From(m - 1) \in Int /\ To(m - 1) \in Int /\ From(m) \in Int
    BY <1>1, <1>4, <1>5
  <2> HIDE DEF From, To
  <2> QED
    BY <1>4, <1>6, <1>7, <2>2, <2>3
<1> QED
  BY <1>8, <1>9

\* So no byte is in two of them.
LEMMA BlocksAreDisjoint ==
  ASSUME NEW map, Mapped(map), WellFormed(map), NEW p \in Int,
         NEW k \in DOMAIN map.segments, NEW l \in DOMAIN map.segments,
         Holds(map.segments[k], p), Holds(map.segments[l], p)
  PROVE  k = l
<1>1. /\ k \in Nat /\ map.segments[k].base \in Int /\ map.segments[k].size \in Int
      /\ l \in Nat /\ map.segments[l].base \in Int /\ map.segments[l].size \in Int
  BY BlocksAreTyped
<1>2. ~(k < l)
  BY <1>1, BlocksAscend DEF Holds
<1>3. ~(l < k)
  BY <1>1, BlocksAscend DEF Holds
<1> QED
  BY <1>1, <1>2, <1>3

\* The search of a map in order finds the block that holds the byte.
LEMMA ContainingIsTheBlock ==
  ASSUME NEW map, Mapped(map), WellFormed(map), NEW p \in Int,
         NEW k \in DOMAIN map.segments, Holds(map.segments[k], p)
  PROVE  containing(map, p) = map.segments[k]
<1> DEFINE holding == {l \in DOMAIN map.segments : Holds(map.segments[l], p)}
<1>1. holding = {k}
  BY BlocksAreDisjoint
<1>2. k <= k
  BY BlocksAreTyped
<1>3. (CHOOSE l \in holding : \A m \in holding : l <= m) = k
  <2> HIDE DEF holding
  <2> QED
    BY <1>1, <1>2
<1> QED
  BY <1>1, <1>3 DEF containing

\* The address of a byte of a block, from any paragraph.
LEMMA AddressInBlock ==
  ASSUME NEW map, Mapped(map), WellFormed(map), NEW p \in Int, NEW b,
         NEW k \in DOMAIN map.segments, Holds(map.segments[k], p)
  PROVE  AddressFrom(map, b, p)
           = << b + map.segments[k].base \div 16, p - map.segments[k].base >>
<1>1. containing(map, p) = map.segments[k] /\ map.segments[k] # None
  BY ContainingIsTheBlock, BlocksAreTyped
<1> QED
  BY <1>1 DEF AddressFrom

\* The address of a byte in no block.
LEMMA AddressInGap ==
  ASSUME NEW map, NEW p, NEW b,
         \A k \in DOMAIN map.segments : ~Holds(map.segments[k], p)
  PROVE  AddressFrom(map, b, p) = << b + p \div 16, p % 16 >>
<1>1. containing(map, p) = None
  BY DEF containing
<1> QED
  BY <1>1 DEF AddressFrom

-----------------------------------------------------------------------------
(* The inductive invariant of the command line's loading.                  *)

\* The fixup loop leaves no entry out.
Exhausted == pc = "loaded" => applied = Len(relocations)

\* What is known of an executable at every step of its loading.
Loading == Typed /\ OnlyTargetsChange /\ AllSums /\ Exhausted

\* An image that is no executable.
AsItIs == data \in Files /\ image = data

ImageIInv ==
  /\ stage \in {"load", "map", "listing", "exit"}
  /\ segment_map \in Maps \union {None, flat(0)}
  /\ stage = "listing" <=> segment_map # None
  /\ IsMzFile \/ stage = "load" => Loading
  /\ IsMzFile /\ stage \in {"map", "listing"} => pc = "loaded"
  /\ ~IsMzFile => pc = "header"
  /\ ~IsMzFile /\ stage # "load" => AsItIs

LEMMA ExhaustedNext == Exhausted /\ [Next]_vars => Exhausted'
BY DEF Exhausted, Next, vars, Refuse, ReadHeader, ReadEntry, TableEnds, Fixup, SkipEntry, FixupsEnd

LEMMA LoadingInit == Init => Loading
<1>1. Init => Exhausted
  BY DEF Init, Exhausted
<1> QED
  BY <1>1, InitTyped, OnlyTargetsChangeInit, AllSumsInit DEF Loading

LEMMA LoadingNext == Loading /\ [Next]_vars => Loading'
BY NextTyped, OnlyTargetsChangeNext, AllSumsNext, ExhaustedNext DEF Loading

\* Loading never touches the file, so what it is does not change.
LEMMA FileStays == [NextImage]_allvars => data' = data /\ (IsMzFile' <=> IsMzFile)
<1> SUFFICES ASSUME [NextImage]_allvars PROVE data' = data
  BY DEF IsMzFile
<1>1. CASE LoadStep
  BY <1>1 DEF LoadStep, Next, Refuse, ReadHeader, ReadEntry, TableEnds, Fixup, SkipEntry, FixupsEnd
<1>2. CASE TakeAsItIs
  BY <1>2 DEF TakeAsItIs
<1>3. CASE NoMap \/ \E map \in Maps : LoadMap(map)
  BY <1>3 DEF NoMap, LoadMap, vars
<1>4. CASE UNCHANGED allvars
  BY <1>4 DEF allvars, vars
<1> QED
  BY <1>1, <1>2, <1>3, <1>4 DEF NextImage

LEMMA ImageInit == InitImage => ImageIInv
<1> SUFFICES ASSUME InitImage PROVE ImageIInv
  OBVIOUS
<1>1. Loading
  BY LoadingInit DEF InitImage
<1>2. pc = "header" /\ stage = "load" /\ segment_map = None
  BY DEF InitImage, Init
<1> QED
  BY <1>1, <1>2 DEF ImageIInv

LEMMA ImageNext == ImageIInv /\ [NextImage]_allvars => ImageIInv'
<1> SUFFICES ASSUME ImageIInv, [NextImage]_allvars PROVE ImageIInv'
  OBVIOUS
<1>0. data' = data /\ (IsMzFile' <=> IsMzFile)
  BY FileStays
<1>1. CASE LoadStep
  <2>1. IsMzFile /\ stage = "load" /\ segment_map = None /\ segment_map' = segment_map
    BY <1>1 DEF LoadStep, ImageIInv
  <2>2. Loading'
    BY <1>1, <2>1, LoadingNext DEF LoadStep, ImageIInv
  <2>3. stage' \in {"load", "map", "exit"} /\ (stage' = "map" => pc' = "loaded")
    BY <1>1, <2>1 DEF LoadStep
  <2> QED
    BY <1>0, <2>1, <2>2, <2>3 DEF ImageIInv
<1>2. CASE TakeAsItIs
  <2>1. /\ ~IsMzFile /\ stage = "load" /\ stage' = "map" /\ pc' = pc
        /\ segment_map = None /\ segment_map' = None
    BY <1>2 DEF TakeAsItIs, ImageIInv
  <2>2. AsItIs'
    BY <1>2, <2>1 DEF TakeAsItIs, AsItIs, ImageIInv, Loading, Typed, TypeOK
  <2> QED
    BY <1>0, <2>1, <2>2 DEF ImageIInv
<1>3. ASSUME UNCHANGED vars, stage \in {"map", "listing"} \/ stage' = stage,
             stage' = "load" => stage = "load", stage' \in {"map", "listing"} => stage \in {"map", "listing"},
             stage' # "load" => stage # "load"
      PROVE  /\ IsMzFile' \/ stage' = "load" => Loading'
             /\ IsMzFile' /\ stage' \in {"map", "listing"} => pc' = "loaded"
             /\ ~IsMzFile' => pc' = "header"
             /\ ~IsMzFile' /\ stage' # "load" => AsItIs'
  <2>1. pc' = pc /\ image' = image
    BY <1>3 DEF vars
  <2>2. Loading => Loading'
    BY <1>3, LoadingNext
  <2>3. AsItIs' <=> AsItIs
    BY <1>0, <2>1 DEF AsItIs
  <2> QED
    BY <1>0, <1>3, <2>1, <2>2, <2>3 DEF ImageIInv
<1>4. ASSUME NEW map \in Maps, LoadMap(map)
      PROVE  ImageIInv'
  <2>1. /\ UNCHANGED vars /\ stage = "map" /\ segment_map = None
        /\ \/ segment_map' = map /\ stage' = "listing"
           \/ segment_map' = None /\ stage' = "exit"
    BY <1>4 DEF LoadMap, ImageIInv
  <2>2. map # None
    BY <1>4, NoneAssumption
  <2> QED
    BY <1>3, <2>1, <2>2 DEF ImageIInv
<1>5. CASE NoMap
  <2>1. UNCHANGED vars /\ stage = "map" /\ segment_map' = flat(0) /\ stage' = "listing"
    BY <1>5 DEF NoMap
  <2>2. flat(0) # None
    BY NoneAssumption
  <2> QED
    BY <1>3, <2>1, <2>2 DEF ImageIInv
<1>6. CASE UNCHANGED allvars
  <2>1. UNCHANGED vars /\ stage' = stage /\ segment_map' = segment_map
    BY <1>6 DEF allvars
  <2> QED
    BY <1>3, <2>1 DEF ImageIInv
<1> QED
  BY <1>1, <1>2, <1>4, <1>5, <1>6 DEF NextImage

\* The strengthening that the theorems below rest on: which stage main is at
\* says how far the load module has come.
THEOREM ImageIInvHolds == SpecImage => []ImageIInv
BY ImageInit, ImageNext, PTL DEF SpecImage

\* What main holds at each stage.
THEOREM ImageTypeCorrect == SpecImage => []ImageTypeOK
<1>1. ImageIInv => ImageTypeOK
  BY DEF ImageIInv, ImageTypeOK, Loading, Typed, AsItIs
<1> QED
  BY <1>1, ImageIInvHolds, PTL

-----------------------------------------------------------------------------
(* What a listing prints.                                                  *)

\* What is known when the listing begins.
LEMMA ListingState ==
  ASSUME ImageIInv, Listing
  PROVE  /\ Mapped(segment_map) /\ WellFormed(segment_map)
         /\ IsBytes(image) /\ base \in Int
         /\ IsMzFile => Loading /\ pc = "loaded"
<1>1. segment_map \in Maps \union {flat(0)}
  BY DEF ImageIInv, Listing
<1>2. Mapped(segment_map)
  <2>1. CASE segment_map \in Maps
    BY <2>1, MapsAssumption, NoneAssumption DEF Mapped
  <2>2. CASE segment_map = flat(0)
    <3>1. segment_map.segments = << >>
      BY <2>2 DEF flat, SegmentMapOf
    <3> QED
      BY <3>1, EmptySeq DEF Mapped
  <2> QED
    BY <1>1, <2>1, <2>2
<1>3. IsMzFile => Loading /\ pc = "loaded"
  BY DEF ImageIInv, Listing
<1>4. IsBytes(image) /\ base \in Int
  <2>1. CASE IsMzFile
    BY <1>3, <2>1, ImageIsBytes, LoadSegmentsAssumption DEF Loading, Typed, TypeOK, base
  <2>2. CASE ~IsMzFile
    <3>1. AsItIs
      BY <2>2 DEF ImageIInv, Listing
    <3> QED
      BY <2>2, <3>1, FilesAssumption DEF AsItIs, base
  <2> QED
    BY <2>1, <2>2
<1> QED
  BY <1>2, <1>3, <1>4 DEF Listing

\* The place of a byte of the image is a number.
LEMMA PlacesAreNumbers ==
  ASSUME IsBytes(image), NEW p \in DOMAIN image
  PROVE  p \in Int /\ 0 <= p /\ p < Size(image) /\ Size(image) \in Int
BY DEF IsBytes

LEMMA ColumnNamesItsByte == ImageIInv => AddressNamesItsByte
<1> SUFFICES ASSUME ImageIInv, Listing, NEW p \in DOMAIN image
             PROVE  list_address(p)[1] * 16 + list_address(p)[2] = base * 16 + p
  BY DEF AddressNamesItsByte
<1>1. Mapped(segment_map) /\ WellFormed(segment_map) /\ IsBytes(image) /\ base \in Int
  BY ListingState
<1>2. p \in Int
  BY <1>1, PlacesAreNumbers
<1>3. ASSUME NEW k \in DOMAIN segment_map.segments, Holds(segment_map.segments[k], p)
      PROVE  list_address(p)[1] * 16 + list_address(p)[2] = base * 16 + p
  <2> DEFINE b == segment_map.segments[k].base
  <2>1. b \in Int /\ b % 16 = 0
    BY <1>1, BlocksAreTyped DEF WellFormed
  <2>2. list_address(p) = << base + b \div 16, p - b >>
    BY <1>1, <1>2, <1>3, AddressInBlock DEF list_address
  <2> HIDE DEF b
  <2>3. b = 16 * (b \div 16)
    BY <2>1
  <2> QED
    BY <1>1, <1>2, <2>1, <2>2, <2>3
<1>4. CASE \A k \in DOMAIN segment_map.segments : ~Holds(segment_map.segments[k], p)
  <2>1. list_address(p) = << base + p \div 16, p % 16 >>
    BY <1>4, AddressInGap DEF list_address
  <2> QED
    BY <1>1, <1>2, <2>1
<1> QED
  BY <1>3, <1>4

\* The two numbers of the address column name the byte they stand beside, for
\* every image, load segment and aligned map, in a block or in a gap.
THEOREM EveryAddressNamesItsByte == SpecImage => []AddressNamesItsByte
BY ImageIInvHolds, ColumnNamesItsByte, PTL

\* A byte is in the same block as itself when a block holds it.
LEMMA InSomeBlock ==
  ASSUME NEW map, segment_map = map, Mapped(map), NEW p \in Int, NEW q \in Int
  PROVE  SameBlock(p, q) <=> \E k \in DOMAIN map.segments :
                               Holds(map.segments[k], p) /\ Holds(map.segments[k], q)
<1>1. ASSUME NEW k \in DOMAIN map.segments
      PROVE  {p, q} \subseteq map.segments[k].base..(map.segments[k].base + map.segments[k].size - 1)
               <=> Holds(map.segments[k], p) /\ Holds(map.segments[k], q)
  BY BlocksAreTyped DEF Holds
<1> QED
  BY <1>1 DEF SameBlock

LEMMA ColumnTellsBlocksApart == ImageIInv => ColumnIsPerBlock
<1> SUFFICES ASSUME ImageIInv, Listing, NEW p \in DOMAIN image, NEW q \in DOMAIN image,
                    SameBlock(p, p), SameBlock(q, q)
             PROVE  list_address(p)[1] = list_address(q)[1] <=> SameBlock(p, q)
  BY DEF ColumnIsPerBlock
<1>1. Mapped(segment_map) /\ WellFormed(segment_map) /\ IsBytes(image) /\ base \in Int
  BY ListingState
<1>2. p \in Int /\ q \in Int
  BY <1>1, PlacesAreNumbers
<1>3. PICK k \in DOMAIN segment_map.segments : Holds(segment_map.segments[k], p)
  BY <1>1, <1>2, InSomeBlock
<1>4. PICK l \in DOMAIN segment_map.segments : Holds(segment_map.segments[l], q)
  BY <1>1, <1>2, InSomeBlock
<1> DEFINE b == segment_map.segments[k].base
           c == segment_map.segments[l].base
<1>5. /\ k \in Nat /\ b \in Int /\ b % 16 = 0 /\ segment_map.segments[k].size \in Int
      /\ l \in Nat /\ c \in Int /\ c % 16 = 0 /\ segment_map.segments[l].size \in Int
  BY <1>1, BlocksAreTyped DEF WellFormed
<1>6. list_address(p)[1] = base + b \div 16 /\ list_address(q)[1] = base + c \div 16
  <2>1. list_address(p) = << base + b \div 16, p - b >>
    BY <1>1, <1>2, <1>3, AddressInBlock DEF list_address
  <2>2. list_address(q) = << base + c \div 16, q - c >>
    BY <1>1, <1>2, <1>4, AddressInBlock DEF list_address
  <2> QED
    BY <2>1, <2>2
<1>7. list_address(p)[1] = list_address(q)[1] <=> b = c
  <2> HIDE DEF b, c
  <2> QED
    BY <1>1, <1>5, <1>6
<1>8. b = c <=> k = l
  <2>1. ASSUME k # l PROVE b # c
    <3>1. segment_map.segments[k].size > 0 /\ segment_map.segments[l].size > 0
      BY <1>1 DEF WellFormed
    <3>2. CASE k < l
      BY <1>1, <1>5, <3>1, <3>2, BlocksAscend
    <3>3. CASE l < k
      BY <1>1, <1>5, <3>1, <3>3, BlocksAscend
    <3> QED
      BY <1>5, <2>1, <3>2, <3>3
  <2> QED
    BY <2>1
<1>9. SameBlock(p, q) <=> k = l
  <2>1. ASSUME SameBlock(p, q) PROVE k = l
    <3>1. PICK m \in DOMAIN segment_map.segments :
            Holds(segment_map.segments[m], p) /\ Holds(segment_map.segments[m], q)
      BY <1>1, <1>2, <2>1, InSomeBlock
    <3>2. m = k
      BY <1>1, <1>2, <1>3, <3>1, BlocksAreDisjoint
    <3>3. m = l
      BY <1>1, <1>2, <1>4, <3>1, BlocksAreDisjoint
    <3> QED
      BY <3>2, <3>3
  <2>2. ASSUME k = l PROVE SameBlock(p, q)
    BY <1>1, <1>2, <1>3, <1>4, <2>2, InSomeBlock
  <2> QED
    BY <2>1, <2>2
<1> QED
  BY <1>7, <1>8, <1>9

\* Two bytes that blocks cover have the same segment in the address column
\* exactly when one block covers both, for every aligned map.
THEOREM EveryBlockHasItsSegment == SpecImage => []ColumnIsPerBlock
BY ImageIInvHolds, ColumnTellsBlocksApart, PTL

-----------------------------------------------------------------------------
(* Far pointers.                                                           *)

\* A pointer that no other fixup touches: its offset is the linker's, its
\* segment the linker's plus the load segment.
LEMMA PointerAfterLoading ==
  ASSUME Loading, pc = "loaded", NEW o \in Pointers
  PROVE  /\ o \in Int /\ 2 <= o /\ o + 2 <= Size(raw) /\ Size(raw) = Size(image)
         /\ \E k \in DOMAIN relocations : relocations[k][1] = o
         /\ Word(image, o - 2) = Word(raw, o - 2)
         /\ Word(image, o) = (Word(raw, o) + load_segment) % 65536
<1> DEFINE Near == {k \in DOMAIN relocations : relocations[k][1] \in (o - 3)..(o + 1)}
<1>1. /\ TypeOK /\ applied = Len(relocations) /\ Size(raw) \in Int
      /\ DOMAIN relocations = 1..applied /\ load_segment \in Int
  BY LoadSegmentsAssumption DEF Loading, Typed, TypeOK, Exhausted, IsBytes
<1>2. \A k \in DOMAIN relocations : relocations[k][1] \in Nat
  <2>1. \A k \in DOMAIN relocations : relocations[k] \in Nat \X Word16
    BY <1>1, ElementOfSeq DEF TypeOK
  <2> QED
    BY <2>1
<1>3. PICK k \in DOMAIN relocations : relocations[k][1] = o
  BY DEF Pointers
<1>4. o \in Nat /\ 2 <= o /\ o + 2 <= Size(raw) /\ Cardinality(Near) = 1
  BY <1>2, <1>3 DEF Pointers
<1>5. Near = {k}
  <2>1. IsFiniteSet(Near)
    <3>1. applied \in Int /\ Near \in SUBSET (1..applied)
      BY <1>1 DEF TypeOK
    <3>2. IsFiniteSet(1..applied)
      BY <3>1, FS_Interval
    <3> HIDE DEF Near
    <3> QED
      BY <3>1, <3>2, FS_Subset
  <2>2. k \in Near
    BY <1>3, <1>4
  <2> HIDE DEF Near
  <2>3. PICK x : Near = {x}
    BY <1>4, <2>1, FS_Singleton
  <2> QED
    BY <2>2, <2>3
<1>6. \A l \in DOMAIN relocations : relocations[l][1] \in (o - 3)..(o + 1) => l = k
  BY <1>5
<1>7. \A l \in Done : l \in DOMAIN relocations /\ l \in 1..applied
  BY <1>1 DEF Done
<1>8. k \in Done
  BY <1>1, <1>3, <1>4 DEF Done
<1>9. Size(raw) = Size(image) /\ DOMAIN image = DOMAIN raw /\ IsBytes(raw)
  BY <1>1, ImageIsBytes DEF TypeOK
<1>10. ASSUME NEW p \in {o - 2, o - 1} PROVE image[p] = raw[p]
  <2>1. ASSUME NEW l \in Done PROVE p \notin Patched(l)
    <3>1. relocations[l][1] \in Nat /\ (l = k \/ relocations[l][1] \notin (o - 3)..(o + 1))
      BY <1>2, <1>6, <1>7
    <3> QED
      BY <1>3, <1>4, <3>1 DEF Patched
  <2>2. p \in DOMAIN image
    BY <1>1, <1>4, <1>9, BytesAreBytes
  <2> QED
    BY <2>1, <2>2 DEF Loading, OnlyTargetsChange
<1>11. Word(image, o - 2) = Word(raw, o - 2)
  <2>1. (o - 2) + 1 = o - 1
    BY <1>4
  <2> QED
    BY <1>10, <2>1 DEF Word
<1>12. ~Straddled(o)
  <2> SUFFICES ASSUME NEW l \in Done, relocations[l][1] \in {o - 1, o + 1} PROVE FALSE
    BY DEF Straddled
  <2>1. relocations[l][1] \in (o - 3)..(o + 1)
    BY <1>4
  <2>2. l = k
    BY <1>6, <1>7, <2>1
  <2> QED
    BY <1>3, <1>4, <2>2
<1>13. Times(o) = 1
  <2>1. \A l \in Done : relocations[l][1] = o => l = k
    <3>1. o \in (o - 3)..(o + 1)
      BY <1>4
    <3> QED
      BY <1>6, <1>7, <3>1
  <2>2. {l \in Done : relocations[l][1] = o} = {k}
    BY <1>3, <1>8, <2>1
  <2> QED
    BY <2>2, FS_Singleton DEF Times
<1>14. Word(image, o) = (Word(raw, o) + 1 * load_segment) % 65536
  BY <1>4, <1>12, <1>13 DEF Loading, AllSums, HoldsItsSum
<1>15. 1 * load_segment = load_segment
  BY <1>1
<1> QED
  BY <1>3, <1>4, <1>9, <1>11, <1>14, <1>15

LEMMA PointersMeetTheColumn == ImageIInv => PointersReadAsListed
<1> SUFFICES ASSUME ImageIInv, Listing, IsMzFile, InFirstMegabyte,
                    NEW o \in Pointers, NEW k \in DOMAIN segment_map.segments,
                    Word(raw, o) = segment_map.segments[k].base \div 16,
                    Word(raw, o - 2) < segment_map.segments[k].size,
                    segment_map.segments[k].base + Word(raw, o - 2) < Size(image)
             PROVE  list_address(segment_map.segments[k].base + Word(raw, o - 2))
                      = << Word(image, o), Word(image, o - 2) >>
  BY DEF PointersReadAsListed
<1> DEFINE b      == segment_map.segments[k].base
           off    == Word(raw, o - 2)
           target == b + off
<1>1. /\ Mapped(segment_map) /\ WellFormed(segment_map) /\ IsBytes(image)
      /\ Loading /\ pc = "loaded"
  BY ListingState
<1>2. /\ b \in Int /\ segment_map.segments[k].size \in Int /\ b % 16 = 0
  BY <1>1, BlocksAreTyped DEF WellFormed
<1>3. /\ o \in Int /\ 2 <= o /\ o + 2 <= Size(raw) /\ Size(raw) = Size(image)
      /\ Word(image, o - 2) = off
      /\ Word(image, o) = (Word(raw, o) + load_segment) % 65536
  BY <1>1, PointerAfterLoading
<1>4. IsBytes(raw) /\ Size(raw) \in Int /\ load_segment \in Int /\ 0 <= load_segment
  BY <1>1, LoadSegmentsAssumption DEF Loading, Typed, TypeOK, IsBytes, InFirstMegabyte
<1>5. off \in Int /\ 0 <= off /\ Word(raw, o) \in Int /\ 0 <= Word(raw, o)
  BY <1>3, <1>4, WordsAreTyped
<1>6. Holds(segment_map.segments[k], target) /\ target \in Int
  BY <1>2, <1>5 DEF Holds
<1>7. list_address(target) = << load_segment + b \div 16, target - b >>
  BY <1>1, <1>6, AddressInBlock DEF list_address, base
<1>8. target - b = off
  BY <1>2, <1>5
<1>9. (Word(raw, o) + load_segment) % 65536 = load_segment + b \div 16
  <2>1. /\ load_segment * 16 + Size(image) <= 1048576 /\ target < Size(image)
        /\ Size(image) \in Int /\ Word(raw, o) = b \div 16
    BY <1>3, <1>4 DEF InFirstMegabyte
  <2> DEFINE w == Word(raw, o)
             n == Size(image)
             s == load_segment
  <2>2. w = b \div 16 /\ w \in Int /\ 0 <= w /\ n \in Int /\ s \in Int /\ 0 <= s
        /\ s * 16 + n <= 1048576 /\ b + off < n
    BY <1>4, <1>5, <2>1
  <2> HIDE DEF w, n, s, b, off
  <2>3. b = 16 * w
    BY <1>2, <2>2
  <2>4. w + s \in Int /\ 0 <= w + s /\ w + s < 65536
    BY <1>5, <2>2, <2>3
  <2>5. (w + s) % 65536 = w + s
    BY <2>4
  <2> QED
    BY <2>2, <2>5 DEF w, s
<1> QED
  BY <1>3, <1>7, <1>8, <1>9

\* A far pointer linked to a block reads, once relocated, as the address the
\* listing prints for the byte it names, for every executable, every aligned
\* map and every load segment that keeps the image in the first megabyte.
THEOREM EveryPointerReadsAsListed == SpecImage => []PointersReadAsListed
BY ImageIInvHolds, PointersMeetTheColumn, PTL

LEMMA TargetsAreFound == ImageIInv => DefaultLoadFindsEntryPoints
<1> SUFFICES ASSUME ImageIInv, pc = "loaded", load_segment \in {0, 4096}, InFirstMegabyte,
                    NEW o \in Pointers,
                    Word(raw, o) * 16 + Word(raw, o - 2) \in 0..(Size(image) - 1)
             PROVE  Word(raw, o) * 16 + Word(raw, o - 2) \in call_targets
  BY DEF DefaultLoadFindsEntryPoints, LinkedTargets
<1> DEFINE w      == Word(raw, o)
           off    == Word(raw, o - 2)
           target == w * 16 + off
           linear == (Word(image, o) * 16 + Word(image, o - 2)) % 1048576
<1>1. Loading
  BY DEF ImageIInv
<1>2. /\ o \in Int /\ 2 <= o /\ o + 2 <= Size(raw) /\ Size(raw) = Size(image)
      /\ Word(image, o - 2) = off
      /\ Word(image, o) = (w + load_segment) % 65536
  BY <1>1, PointerAfterLoading
<1>3. PICK k \in DOMAIN relocations : relocations[k][1] = o
  BY <1>1, PointerAfterLoading
<1>4. IsBytes(raw) /\ Size(raw) \in Int
  BY <1>1 DEF Loading, Typed, TypeOK, IsBytes
<1>5. off \in Int /\ 0 <= off /\ off <= 65535 /\ w \in Int /\ 0 <= w /\ w <= 65535
  BY <1>2, <1>4, WordsAreTyped
<1>6. load_segment * 16 + target < 1048576
  <2>1. load_segment * 16 + Size(image) <= 1048576 /\ target \in 0..(Size(image) - 1)
    BY DEF InFirstMegabyte
  <2>2. load_segment \in Int /\ Size(image) \in Int
    BY <1>2, <1>4
  <2> HIDE DEF target
  <2> QED
    BY <2>1, <2>2
<1>7. linear = load_segment * 16 + target
  <2> DEFINE s == load_segment
  <2>1. s \in Int /\ 0 <= s /\ w + s < 65536
    <3> HIDE DEF w, off
    <3> QED
      BY <1>5, <1>6
  <2>2. (w + s) % 65536 = w + s
    <3> HIDE DEF w, s
    <3> QED
      BY <1>5, <2>1
  <2>3. linear = ((w + s) * 16 + off) % 1048576
    BY <1>2, <2>2
  <2>4. (w + s) * 16 + off = s * 16 + target
    <3> HIDE DEF w, s, off
    <3> QED
      BY <1>5, <2>1
  <2>5. s * 16 + target \in Int /\ 0 <= s * 16 + target /\ s * 16 + target < 1048576
    <3> HIDE DEF w, off
    <3> QED
      BY <1>5, <1>6, <2>1
  <2> HIDE DEF w, s, off, linear, target
  <2>6. (s * 16 + target) % 1048576 = s * 16 + target
    BY <2>5
  <2> QED
    BY <2>3, <2>4, <2>6 DEF s
<1>8. target \in Candidates(linear)
  <2>1. target \in Int
    BY <1>5
  <2> HIDE DEF target, linear
  <2> QED
    BY <1>7, <2>1 DEF Candidates
<1>9. k \in {j \in DOMAIN relocations : relocations[j][1] >= 2 /\ relocations[j][1] + 2 <= Size(image)}
  BY <1>2, <1>3
<1>10. linear = (Word(image, relocations[k][1]) * 16 + Word(image, relocations[k][1] - 2)) % 1048576
  BY <1>3
<1> HIDE DEF linear
<1> QED
  BY <1>8, <1>9, <1>10 DEF call_targets

\* The far pointers of an image in the first megabyte all give their targets as
\* entry points, at the default load segment and at none, for every executable.
THEOREM DefaultLoadFindsThem == SpecImage => []DefaultLoadFindsEntryPoints
BY ImageIInvHolds, TargetsAreFound, PTL

\* MzImage alone and within the command line: what its theorems say of a word
\* and of a byte holds in every listing.
THEOREM FixupsAreSumsInListings == SpecImage => [](OnlyTargetsChange /\ FixupsAddUp)
<1>1. ImageIInv => OnlyTargetsChange /\ FixupsAddUp
  <2>1. CASE Loading
    BY <2>1, AllSumsCoverTargets DEF Loading
  <2>2. CASE ~Loading
    BY <2>2 DEF ImageIInv, OnlyTargetsChange, FixupsAddUp
  <2> QED
    BY <2>1, <2>2
<1> QED
  BY <1>1, ImageIInvHolds, PTL
=============================================================================
