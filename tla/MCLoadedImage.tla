---------------------------- MODULE MCLoadedImage ----------------------------
(***************************************************************************)
(* Instances of LoadedImage: small executables, put together from their    *)
(* header fields, relocation table and load module.                        *)
(***************************************************************************)
EXTENDS LoadedImage

Lo(w) == w % 256
Hi(w) == w \div 256

\* The sequence of bytes as a file.
FileOf(s) == [p \in 0..(Len(s) - 1) |-> s[p + 1]]

RECURSIVE Flatten(_)
Flatten(entries) ==
  IF entries = << >> THEN << >>
  ELSE << Lo(Head(entries)[1]), Hi(Head(entries)[1]), Lo(Head(entries)[2]), Hi(Head(entries)[2]) >>
       \o Flatten(Tail(entries))

Pad(s, n) == s \o [i \in 1..(n - Len(s)) |-> 0]

\* 28 bytes of header, the table, padding up to the load module, the module.
Executable(last, pages, count, paragraphs, table, entries, module) ==
  FileOf(Pad(<< 77, 90, Lo(last), Hi(last), Lo(pages), Hi(pages), Lo(count), Hi(count),
                paragraphs, 0, 0, 0, 0, 0, 0, 0, 0, 0, 0, 0, 0, 0, 0, 0,
                Lo(table), Hi(table), 0, 0 >> \o Flatten(entries), paragraphs * 16) \o module)

\* A far pointer to the second paragraph, one to the first, and a word that
\* overflows; then the bytes they point at.
Module == << 2, 0, 1, 0,  3, 0, 0, 0,  255, 255, 7, 7,  7, 7, 7, 7,  7, 7, 0, 1 >>

\* In order: the two pointers, words that straddle them, the overflowing word,
\* one that only the entry's segment brings inside, one that does not fit.
Entries == {<< 2, 0 >>, << 6, 0 >>, << 3, 0 >>, << 8, 0 >>, << 2, 1 >>, << 3, 1 >>}

Tables == {<< >>} \union (Entries \X Entries) \union (Entries \X Entries \X Entries)

\* Every table; then extents the header gives otherwise: to the end of the
\* file, a whole last page, before the header, counted from the end of the
\* file; a table cut off by the end of the file and one behind it.
Executables ==
  {Executable(68, 1, Len(t), 3, 28, t, Module) : t \in Tables}
  \union {Executable(e[1], e[2], 1, 3, 28, << << 6, 0 >> >>, Module) :
            e \in {<< 0, 0 >>, << 0, 1 >>, << 40, 1 >>, << 500, 0 >>, << 60, 1 >>}}
  \union {Executable(68, 1, 9, 3, 28, << >>, Module), Executable(68, 1, 2, 3, 64, << >>, Module),
          Executable(68, 1, 2, 3, 70, << >>, Module)}

\* Not executables: a signature without a header, and a flat image.
Others == {FileOf(<< 77, 90, 1 >>), FileOf(Module)}

FilesChecked == Executables \union Others

Block(base_, size_) == [base |-> base_, size |-> size_]

\* Blocks that cover the image, leave gaps in it, are unaligned or overlap, and
\* a map of another file.
MapsChecked ==
  {SegmentMapOf(<< Block(0, 16), Block(16, 4) >>, 4096, None),
   SegmentMapOf(<< Block(16, 3) >>, 4096, None),
   SegmentMapOf(<< Block(0, 5), Block(16, 64) >>, 8192, None),
   SegmentMapOf(<< Block(4, 12), Block(0, 64) >>, 4096, None),
   SegmentMapOf(<< Block(0, 20) >>, 4096, FileOf(Module))}

\* The paragraph of an unrelocated module, the default, and the largest.
Segments == {0, 4096, 65535}

\* A paragraph tests load at besides the default.
OtherSegments == {8192}
=============================================================================
