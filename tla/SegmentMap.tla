----------------------------- MODULE SegmentMap -----------------------------
(***************************************************************************)
(* The blocks of a load image and the address a listing prints for a byte  *)
(* of it (segments.py, Segment and SegmentMap).  A map is its blocks in    *)
(* order, the load paragraph it was written for, and the digest of the     *)
(* file it was written for; a digest is modelled by what was digested.     *)
(***************************************************************************)
EXTENDS Integers, Sequences, FiniteSets

CONSTANT None   \* Python's None, and the digest of a map that records none

SegmentMapOf(segments, load_paragraph, target) ==
  [segments |-> segments, load_paragraph |-> load_paragraph, target_sha256 |-> target]

flat(load_paragraph) == SegmentMapOf(<< >>, load_paragraph, None)

\* Mutant: a block holds the byte after it.
HoldsEnd(segment, file_offset) ==
  segment.base <= file_offset /\ file_offset <= segment.base + segment.size

Holds(segment, file_offset) ==
  segment.base <= file_offset /\ file_offset < segment.base + segment.size

\* The first block that holds the byte.
containing(map, file_offset) ==
  LET holding == {k \in DOMAIN map.segments : Holds(map.segments[k], file_offset)}
  IN IF holding = {} THEN None
     ELSE map.segments[CHOOSE k \in holding : \A l \in holding : k <= l]

\* Mutant: outside the blocks the offset is not reduced to its paragraph.
AddressKeepsOffset(map, load_paragraph, file_offset) ==
  LET block == containing(map, file_offset)
  IN IF block = None
     THEN << load_paragraph + file_offset \div 16, file_offset >>
     ELSE << load_paragraph + block.base \div 16, file_offset - block.base >>

\* SegmentMap.address from the map's paragraph, cli.list_address from another.
AddressFrom(map, load_paragraph, file_offset) ==
  LET block == containing(map, file_offset)
  IN IF block = None
     THEN << load_paragraph + file_offset \div 16, file_offset % 16 >>
     ELSE << load_paragraph + block.base \div 16, file_offset - block.base >>

matches(map, file) == map.target_sha256 \in {None, file}

-----------------------------------------------------------------------------
\* The layout the module documentation describes and the maps of the tests
\* have: paragraph-aligned blocks that are not empty, ascending and disjoint.
WellFormed(map) ==
  \A k \in DOMAIN map.segments :
    /\ map.segments[k].base % 16 = 0
    /\ map.segments[k].size > 0
    /\ k > 1 => map.segments[k - 1].base + map.segments[k - 1].size <= map.segments[k].base
=============================================================================
