----------------------------- MODULE LoadedImage -----------------------------
(***************************************************************************)
(* An image as the command line disassembles it (cli.py, load_image, main  *)
(* and list_address): the file loaded, the segment map read, and the       *)
(* address column of the listing beside the far pointers in its code; and  *)
(* the entry points the relocation table gives (frame.py,                  *)
(* call_targets_from_relocations).                                         *)
(***************************************************************************)
EXTENDS MzImage, SegmentMap

CONSTANT Maps   \* the segment maps --segments may name

\* A map is read from JSON: its blocks are numbers, and nothing says that they
\* are in order.
ASSUME MapsAssumption ==
  \A map \in Maps : map.segments \in Seq([base : Int, size : Int])

\* Python's None is neither a map nor a block.
ASSUME NoneAssumption ==
  /\ None \notin Maps \union {flat(0)}
  /\ \A map \in Maps : \A k \in DOMAIN map.segments : map.segments[k] # None

VARIABLES
  segment_map,  \* main's local of that name, None before it is read
  stage         \* "load", "map", "listing", or "exit" when main gives up

allvars == << vars, segment_map, stage >>

InitImage ==
  /\ Init
  /\ segment_map = None
  /\ stage = "load"

IsMzFile == Size(data) >= 2 /\ data[0] = 77 /\ data[1] = 90

\* An MZ file is loaded; anything else is the image as it is, at paragraph 0.
LoadStep ==
  /\ stage = "load"
  /\ IsMzFile
  /\ Next
  /\ stage' = CASE pc' = "loaded" -> "map"
                [] pc' = "ValueError" -> "exit"
                [] OTHER -> stage
  /\ UNCHANGED segment_map

TakeAsItIs ==
  /\ stage = "load"
  /\ ~IsMzFile
  /\ image' = data
  /\ stage' = "map"
  /\ UNCHANGED << data, load_segment, pc, raw, relocations, applied, segment_map >>

base == IF IsMzFile THEN load_segment ELSE 0

\* A map is refused when it is for another file.
LoadMap(map) ==
  /\ stage = "map"
  /\ IF matches(map, data)
     THEN segment_map' = map /\ stage' = "listing"
     ELSE segment_map' = segment_map /\ stage' = "exit"
  /\ UNCHANGED vars

NoMap ==
  /\ stage = "map"
  /\ segment_map' = flat(0)
  /\ stage' = "listing"
  /\ UNCHANGED vars

NextImage ==
  \/ LoadStep
  \/ TakeAsItIs
  \/ \E map \in Maps : LoadMap(map)
  \/ NoMap

SpecImage == InitImage /\ [][NextImage]_allvars

\* Mutant: the paragraph the map was written for is used.
listAddressOfMap(file_offset) == AddressFrom(segment_map, segment_map.load_paragraph, file_offset)

list_address(file_offset) == AddressFrom(segment_map, base, file_offset)

\* Mutant: only an image at paragraph 0 is thought of.
CandidatesUnshifted(linear) == {linear}

\* The load address is not known here: the default one and none are tried.
Candidates(linear) == {linear - 65536, linear}

call_targets ==
  (UNION {Candidates((Word(image, relocations[k][1]) * 16 + Word(image, relocations[k][1] - 2))
                     % 1048576)
            : k \in {j \in DOMAIN relocations :
                       relocations[j][1] >= 2 /\ relocations[j][1] + 2 <= Size(image)}})
  \intersect (0..(Size(image) - 1))

-----------------------------------------------------------------------------
(* Properties.                                                             *)

\* What main holds at each stage.
ImageTypeOK ==
  /\ TypeOK \/ (~IsMzFile /\ pc = "header" /\ image = data)
  /\ stage \in {"load", "map", "listing", "exit"}
  /\ segment_map \in Maps \union {None, flat(0)}
  /\ stage = "listing" <=> segment_map # None

Listing == stage = "listing" /\ WellFormed(segment_map)

\* The two numbers of the address column name the byte: shifted together they
\* are its linear address, in a block or in a gap, under --segment or not.
AddressNamesItsByte ==
  Listing =>
    \A p \in DOMAIN image :
      list_address(p)[1] * 16 + list_address(p)[2] = base * 16 + p

SameBlock(p, q) ==
  \E k \in DOMAIN segment_map.segments :
    LET s == segment_map.segments[k]
    IN {p, q} \subseteq s.base..(s.base + s.size - 1)

\* The column is per block: two bytes that some block covers have the same
\* segment exactly when it is the same block.
ColumnIsPerBlock ==
  Listing =>
    \A p, q \in DOMAIN image :
      SameBlock(p, p) /\ SameBlock(q, q) =>
        (list_address(p)[1] = list_address(q)[1] <=> SameBlock(p, q))

\* The far pointers the linker left: a word the table names, alone, with the
\* pointer's offset before it untouched by any other fixup.
Pointers ==
  {o \in {relocations[k][1] : k \in DOMAIN relocations} :
     /\ o >= 2 /\ o + 2 <= Size(raw)
     /\ Cardinality({k \in DOMAIN relocations : relocations[k][1] \in (o - 3)..(o + 1)}) = 1}

\* The whole program is in the megabyte that the processor can address.
InFirstMegabyte == 0 <= load_segment /\ load_segment * 16 + Size(image) <= 1048576

\* The block bases and the relocated pointers move together: a far pointer
\* linked to the base paragraph of a block reads, once relocated, as the very
\* address the listing prints for the byte it names, wherever in the first
\* megabyte the program is loaded.
PointersReadAsListed ==
  Listing /\ IsMzFile /\ InFirstMegabyte =>
    \A o \in Pointers : \A k \in DOMAIN segment_map.segments :
      LET s == segment_map.segments[k]
          target == s.base + Word(raw, o - 2)
      IN /\ Word(raw, o) = s.base \div 16
         /\ Word(raw, o - 2) < s.size
         /\ target < Size(image)
         => list_address(target) = << Word(image, o), Word(image, o - 2) >>

\* The bytes of the image the linker aimed a far pointer at.
LinkedTargets ==
  {Word(raw, o) * 16 + Word(raw, o - 2) : o \in Pointers} \intersect (0..(Size(image) - 1))

\* At the default load segment, and in a load module that was not relocated,
\* every far pointer that was aimed at a byte of the image gives that byte as an
\* entry point, whatever segment its entry has.
DefaultLoadFindsEntryPoints ==
  pc = "loaded" /\ load_segment \in {0, 4096} /\ InFirstMegabyte =>
    LinkedTargets \subseteq call_targets

\* frame.py, call_targets_from_relocations: the targets implied by the table.
EveryLoadFindsEntryPoints ==
  pc = "loaded" => LinkedTargets \subseteq call_targets
=============================================================================
