------------------------------- MODULE MzImage -------------------------------
(***************************************************************************)
(* Loading of a DOS executable (mz.py, load and MzImage.relocate): the     *)
(* header, the load module cut out of the file, the relocation table, and  *)
(* the fixups that patch the load segment into a copy of the load module.  *)
(*                                                                         *)
(* A file, a load module and an image are functions from offsets to bytes. *)
(***************************************************************************)
EXTENDS Integers, Sequences, FiniteSets

CONSTANTS
  Files,         \* the files load is called with
  LoadSegments   \* the load segments it is called with

Byte   == 0..255
Word16 == 0..65535
Size(f) == Cardinality(DOMAIN f)
IsBytes(f) == Size(f) \in Nat /\ f \in [0..(Size(f) - 1) -> Byte]

ASSUME FilesAssumption == \A f \in Files : IsBytes(f)
ASSUME LoadSegmentsAssumption == LoadSegments \subseteq Int

RelocEntrySize == 4
PageSize       == 512

VARIABLES
  data,          \* the argument: the file
  load_segment,  \* the argument of that name
  pc,            \* "header", "table", "fixups", "loaded", or "ValueError"
  raw,           \* the load module as it sits in the file
  relocations,   \* <<linear load offset, segment>> of each entry read so far
  applied,       \* how many of them the fixup loop has been through
  image          \* the copy of raw being patched

vars == << data, load_segment, pc, raw, relocations, applied, image >>

Empty == [p \in {} |-> 0]
Word(f, at) == f[at] + 256 * f[at + 1]

\* Where a Python slice bound falls: a negative one counts from the end.
Bound(i, n) == IF i > n THEN n ELSE IF i >= 0 THEN i ELSE IF i + n >= 0 THEN i + n ELSE 0

Slice(f, from, to) ==
  LET first == Bound(from, Size(f))
  IN [p \in 0..(Bound(to, Size(f)) - first - 1) |-> f[first + p]]

-----------------------------------------------------------------------------
(* The header.                                                             *)

IsMz == Size(data) >= 28 /\ data[0] = 77 /\ data[1] = 90

last_page_bytes == Word(data, 2)
page_count      == Word(data, 4)
reloc_count     == Word(data, 6)
header_size     == Word(data, 8) * 16
reloc_table     == Word(data, 24)

declared == (page_count - 1) * PageSize
            + (IF last_page_bytes = 0 THEN PageSize ELSE last_page_bytes)

end == IF declared # 0 /\ declared < Size(data) THEN declared ELSE Size(data)

Init ==
  /\ data \in Files
  /\ load_segment \in LoadSegments
  /\ pc = "header"
  /\ raw = Empty
  /\ relocations = << >>
  /\ applied = 0
  /\ image = Empty

Refuse ==
  /\ pc = "header"
  /\ ~IsMz
  /\ pc' = "ValueError"
  /\ UNCHANGED << data, load_segment, raw, relocations, applied, image >>

ReadHeader ==
  /\ pc = "header"
  /\ IsMz
  /\ raw' = Slice(data, header_size, end)
  /\ pc' = "table"
  /\ UNCHANGED << data, load_segment, relocations, applied, image >>

-----------------------------------------------------------------------------
(* The relocation table.                                                   *)

at == reloc_table + Len(relocations) * RelocEntrySize
HasEntry == Len(relocations) < reloc_count /\ at + RelocEntrySize <= Size(data)

Entry == << Word(data, at + 2) * 16 + Word(data, at), Word(data, at + 2) >>

ReadEntry ==
  /\ pc = "table"
  /\ HasEntry
  /\ relocations' = Append(relocations, Entry)
  /\ UNCHANGED << data, load_segment, pc, raw, applied, image >>

TableEnds ==
  /\ pc = "table"
  /\ ~HasEntry
  /\ image' = raw
  /\ pc' = "fixups"
  /\ UNCHANGED << data, load_segment, raw, relocations, applied >>

-----------------------------------------------------------------------------
(* The fixups.                                                             *)

\* Mutant: the entry is taken for the pointer, not for its segment word.
offsetOfPointer == relocations[applied + 1][1] + 2

offset == relocations[applied + 1][1]

\* Mutant: a word is not cut to 16 bits.
FixedUpWide == Word(image, offset) + load_segment

\* Mutant: the word is taken from the file's copy.
FixedUpFromRaw == (Word(raw, offset) + load_segment) % 65536

FixedUp == (Word(image, offset) + load_segment) % 65536

Fits == offset + 2 <= Size(image)

Fixup ==
  /\ pc = "fixups"
  /\ applied < Len(relocations)
  /\ Fits
  /\ image' = [image EXCEPT ![offset] = FixedUp % 256, ![offset + 1] = FixedUp \div 256]
  /\ applied' = applied + 1
  /\ UNCHANGED << data, load_segment, pc, raw, relocations >>

SkipEntry ==
  /\ pc = "fixups"
  /\ applied < Len(relocations)
  /\ ~Fits
  /\ applied' = applied + 1
  /\ UNCHANGED << data, load_segment, pc, raw, relocations, image >>

FixupsEnd ==
  /\ pc = "fixups"
  /\ applied = Len(relocations)
  /\ pc' = "loaded"
  /\ UNCHANGED << data, load_segment, raw, relocations, applied, image >>

Next ==
  \/ Refuse
  \/ ReadHeader
  \/ ReadEntry
  \/ TableEnds
  \/ Fixup
  \/ SkipEntry
  \/ FixupsEnd

Spec == Init /\ [][Next]_vars

-----------------------------------------------------------------------------
(* Properties.                                                             *)

\* The call's arguments and locals; the image keeps the extent of the load
\* module and holds bytes whatever the fixups overflow.
TypeOK ==
  /\ data \in Files
  /\ load_segment \in LoadSegments
  /\ pc \in {"header", "table", "fixups", "loaded", "ValueError"}
  /\ IsBytes(raw)
  /\ relocations \in Seq(Nat \X Word16)
  /\ applied \in 0..Len(relocations)
  /\ pc \in {"header", "table", "ValueError"} => image = Empty /\ applied = 0
  /\ pc \in {"fixups", "loaded"} => image \in [DOMAIN raw -> Byte]

\* The entries gone through whose word is inside the module, and the two bytes
\* one of them patches.
Done       == {k \in 1..applied : relocations[k][1] + 2 <= Size(raw)}
Patched(k) == {relocations[k][1], relocations[k][1] + 1}

\* A byte that no entry of the table names is the byte of the file.
OnlyTargetsChange ==
  pc \in {"fixups", "loaded"} =>
    \A p \in DOMAIN image : (\A k \in Done : p \notin Patched(k)) => image[p] = raw[p]

\* A target no other target straddles holds the linker's word plus the load
\* segment, once for every entry that names it, modulo 16 bits: the entries of
\* a table in any order, entries that repeat, entries that do not fit.
Times(o)      == Cardinality({l \in Done : relocations[l][1] = o})
Straddled(o)  == \E l \in Done : relocations[l][1] \in {o - 1, o + 1}
HoldsItsSum(o) == Word(image, o) = (Word(raw, o) + Times(o) * load_segment) % 65536
FixupsAddUp ==
  pc \in {"fixups", "loaded"} =>
    \A k \in Done : Straddled(relocations[k][1]) \/ HoldsItsSum(relocations[k][1])
=============================================================================
