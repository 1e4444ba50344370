# A verification of pydasm

pydasm disassembles 8088/8086 code. A decoder reads instructions from a byte
buffer; two renderers turn them into text; a command line sweeps an image and
prints a listing; smaller modules load DOS executables, map file offsets to
segments, read routine frames and select procedures of TPU9 units. This
directory holds TLA+ models of the parts that keep state or decide control,
TLC configurations that check them on small instances, and TLAPS proofs of what
matters most for every instance.

## The system

| Component | State | Operations | What can go wrong |
| --- | --- | --- | --- |
| `byte_reader.py`, `errors.py` | a buffer and a cursor | reads of 1, 2, 4 bytes; a read that fails has already consumed what there was | a short read taken for a whole one |
| `decoder.py` | a reader, the options | `set_position`, `rewind`, `set_options`, `decode_next`, iteration | end of input confused with middle of an instruction; one call showing in the next |
| `i808x/decode.py` with `modrm16.py`, `operands.py`, `decode_table.py`, `gdr.py` | the instruction under construction, the table row, the ModRM byte | prefix loop, lookup and group re-index, ModRM and displacement, two operands | bytes recorded that are not the bytes read, parts out of order, a ModRM byte needed and not read, signs |
| `instruction.py`, `cpu_common.py` | the record a decode fills | queries | parts that do not add up to the whole |
| `cli.py` | image, position, the set of positions printed | sweep, resynchronisation, seeds, frames, exit status | bytes listed twice or never, output that the exit status does not explain, no end |
| `mz.py` | none, a function of the file | header, load module, relocations | a fixup at the wrong place or out of the module |
| `segments.py` | the blocks of an image | offset to segment:offset | an address that names another byte |
| `frame.py` | what the body of a routine has shown so far | one pass over the routine | slots that overlap or miss the reads |
| `tpu9.py` | none, a function of the file | code and procedure spans, primary routine | a span that leaves its block |
| `ghidra.py`, `nasm_formatter.py` with `mnemonic.py`, `_mnemonics.py` | none | text of an instruction at an address, in a listing's style and an assembler's | a prefix that counts dropped or a wrong one shown, targets in the wrong segment or at the wrong offset, operands swapped, a placeholder printed as an instruction |
| `tools/check_sst.py` | counters | lengths, targets and addresses of decoded instructions against recordings of the processor | a correct decode rejected, a wrong one accepted |
| other `tools/` | none | generators, comparisons of listings | |

The command line creates one `Decoder` over the loaded image and calls
`set_position` and `decode_next` on it; frame analysis drives `Intel808x.decode`
over its own reader; TPU9 selection iterates a `Decoder` over one procedure; the
renderers and the hardware check read the record a decode returned and change
nothing.
Everything is sequential Python: there are no threads, messages or persisted
state. What is hard is order (which bytes are read and recorded when), partial
failure (a read that raises in the middle of a decode, a seed that is refused in
the middle of a listing), boundaries (sign bits, ends of images and ranges) and
state that outlives a failure (the cursor, the sets of the command line).

## Modules

| Module | Models | Kind |
| --- | --- | --- |
| `ModRm16` | fields and displacement of a ModRM byte, two's complement, little-endian words | operators |
| `Operands` | operand templates: bytes consumed, bytes recorded, operand built | operators |
| `DecodeTable` | the 352 rows of the shipped table: group, ModRM bit, templates | operators |
| `InstructionStream` | what the decoder promises: every call one step | abstract specification |
| `Decoder` | `Decoder`, `ByteReader` and `Intel808x.decode`, phase by phase | state machine, implements `InstructionStream` |
| `MCDecoder` | the buffers the runs use | instance |
| `Mnemonics` | the mnemonic of every table row, names, REP spellings, aliases, placeholders | operators |
| `DecodedInstruction` | what the record answers its readers: bytes, mnemonic, operands, effective override; the shape of a text | operators |
| `GhidraListing` | `ghidra.render_body` and all it calls | operators |
| `NasmText` | `NasmFormatter.format_instruction` and all it calls | operators |
| `OperandMeanings` | what an 8086 makes of the operands: the reference for the next three | operators, not a translation |
| `HardwareCheck` | `tools/check_sst.py`, one test | operators |
| `Rendering` | the decoder, `cli.emit`'s two renderers and the check, composed | state machine, extends `Decoder` |
| `MCRendering` | the buffers, addresses, styles and register files of its runs | instance |
| `LinearSweep` | `cli.main` over a decoder as `InstructionStream` specifies it | state machine |
| `RoutineFrame` | `frame.analyse_frame` | state machine |
| `MCRoutineFrame` | the instructions and ranges of its runs | instance |
| `MzImage` | `mz.load` and `MzImage.relocate` | state machine |
| `SegmentMap` | blocks, and the address of a byte | operators |
| `LoadedImage` | `MzImage` and `SegmentMap` as `cli.main` composes them, and the entry points of the relocation table | state machine, extends `MzImage` |
| `MCLoadedImage` | the executables and maps of its runs | instance |
| `ProcedureSelection` | `tpu9.primary_routine`, tables to return | state machine |
| `MCProcedureSelection` | the units of its run | instance |
| `Decoder_proofs`, `Decoder_refinement`, `DecodeTable_proofs`, `LoadedImage_proofs`, `LinearSweep_proofs`, `ProcedureSelection_proofs`, `RoutineFrame_proofs`, `Rendering_proofs` | theorems | proofs |

### Decoder

`buf`, `position` are the reader; `cpu` the options; `pc` is `"idle"` between
calls and otherwise the phase a decode is in (`opcode`, `modrm`, `operand1`,
`operand2`); `inst`, `row`, `modrm`, `displacement` are the locals of `_decode`;
`start` is the local of `decode_next` it compares the cursor with; `outcome` and
`result` are what the latest call raised or returned. Each phase is one action,
and `RunsOutInPhase` is the `UnexpectedEof` any of them can raise: a word is two
reads and a far pointer four, so a failed read has taken every byte there was.
`ReadPrefixOrOpcode` is one turn of the prefix loop. `ResolveOperand1/2` carry
the `AttributeError` an operand would raise if its ModRM byte had not been read.
The record keeps the byte lists, the offsets and the operands; operands hold
numbers and register indices, no text. The four CPUs that are not ported share
one branch and one model value. The segment registers an `SREG` template names
get a kind of their own; the code uses `reg16` for both.

### Mnemonics, DecodedInstruction, GhidraListing, NasmText, Rendering

The renderers are functions of a record, so they are operators named as in the
code. A text is a record: prefixes, mnemonic, and operands that are registers,
numbers, pairs, offsets or memory with size word, segment, registers and
numbers; how these are spelled (hex, case, padding, brackets) is left out.
`render_body` gets the address and the code segment of its caller and can refuse
the segment with a `ValueError`; `format_instruction` gets the options, the
linear address as `ip` among them. `Rendering` lets the decoder of `Decoder` walk
a buffer and after each return makes one call of either renderer (`RenderBody`,
`FormatInstruction`) in one of the `Contexts`. `asked` and `text` are the
arguments and the answer of that call. The renderers keep nothing between
calls, so a second call on the same instruction is another behaviour.

The properties do not repeat the rules of the renderers. They read the text back
(`ListingRead`, `NasmRead`) as someone would who knows the 8086 and not the
bytes, and compare with `OperandMeanings!Operands`, which is written from the
processor: default segments, latest override, what a string operation touches.

### HardwareCheck

A test is the registers before an instruction, the instruction pointer after it
(or none) and the addresses that changed; `check` is the set of counters it
raises, with the code's classification, wrapped sums and half-word tolerance.
Its properties generate recordings from the reference meaning: `FaithfulPasses`
any that the processor could have made (branch taken or not, fault or not, any
subset of the operand's bytes changed), `MovedIsCaught` with the operand
moved by the distances the tolerance might hide: two bytes, and one if it is a byte.

### LinearSweep

`extent` gives, for every position of the image, the length of the instruction
there or 0 when the image ends inside it: by `Decoder_refinement` this is all
that a decode at a position depends on, and every function that fits the image
is tried, a superset of what bytes can produce. `files` is what loading made of
the image and the segment map. `pc` is the loop `main` is in, `position`,
`emitted` its locals, `listing` the lines printed, `exit` the status. An
exception that leaves `main` is exit status 1, as Python makes it.

### RoutineFrame

One pass over the instructions of `[start, end)`, then the argument slots.
Because the pass reads every position once, what the bytes hold is decided when
they are read: the next instruction is any of `Instructions` of that range, and whether it
decodes depends on its length and `end` alone, as the reader is over the image
cut at `end`. `frame`, `positive` and `reading` are the locals; lists whose order
nothing depends on (slots, notes, locals, globals) are sets. `previous` and
`before` are the last two of `seen`, the history of the pass, which the
properties also read. A note is its kind and the offset it is about.

`ConventionIsObserved` is stated with the documented epilogue, the short form only
where no local was allocated, and therefore not of a routine in which a `SUB SP,0`
follows an allocation: the code then forgets the allocation, which
`AllocatedFrameNeedsReset` shows (see Findings).

### MzImage, SegmentMap, LoadedImage

A file is a function from offsets to bytes, so header words, the slice that cuts
out the load module (with Python's negative bounds) and the table are read as the
code reads them; `ReadEntry` is one turn of the table loop and `Fixup` or
`SkipEntry` one turn of `relocate`'s. `SegmentMap` has no state: `containing` is
the first block that holds a byte, `AddressFrom` the rule `SegmentMap.address`
and `cli.list_address` share with a load paragraph each. `LoadedImage` runs
`MzImage` to its end (or takes a file without the signature as it is), reads a
map or none, and then has the address column of every byte, `list_address`, next
to the relocated far pointers. A digest is modelled by what was digested.
`PointersReadAsListed` and `DefaultLoadFindsEntryPoints` speak of programs that lie
in the first megabyte (`InFirstMegabyte`): the proofs do not go through without it,
and rightly, as a load segment below 0 or an image that reaches past 16 bits of
paragraphs gives words that wrap while the listing's segments do not.

### ProcedureSelection

A unit is the numbers of its header and the records of its tables; `blocks`,
`offsets` and `span` are the locals of `procedure_spans` and `primary_span`, and
the decode of the span chooses instructions as `RoutineFrame` does. Whether the
bytes at an entry are a prologue is a choice where the span has room for one.
Every `raise ValueError` is an action of its own.

## Runs

| Run | Instance | Shows |
| --- | --- | --- |
| `decoder` | every buffer of at most 6 bytes over {prefix 2E, group opcode 81, far-pointer opcode 9A, plain opcode 46}, all four also ModRM bytes of different modes | types; the record of a decode is the input it passed at every point; the parts tile it; ends of input are classified; a decode returns; the decoder implements the stream |
| `rendering` | every opcode, ModRM bytes of every mod and reg with the absolute mode, trailing bytes at the sign boundaries, cut off after each of 1 to 6 bytes; every run of one and two prefixes before nineteen instructions of every kind of access; all 24 addresses; nine load addresses and code segments; four NASM styles; three register files | parts tile; operands carry the numbers their bytes spell; no operand lacks its ModRM byte; both texts read back as what was decoded; targets name their byte; no placeholder is printed; the check accepts faithful recordings and catches moved operands |
| `rendering_semantic` | the prefixed instructions of `rendering` | violated: see Findings |
| `linear_sweep` | images of at most 3 bytes, two seeds, every `--start` and `--end` from before the image to past it | sweep tiles, every byte asked for once, no line twice, exit status explained, termination |
| `linear_sweep_sorted` | as `linear_sweep` | violated: see Findings |
| `frame` | ten framing instructions (prologue, allocations of 2 and 0, epilogue, three returns, two calls) over six ranges: inside the image, up to its end, past 64K, three refused; and ten instructions that read overlapping, gapped, low and far slots over ten bytes | what is read lies in the routine; the calling convention is that of the last return that undoes the frame, where no `SUB SP,0` hides an allocation; the slots tile the argument run; every read has its slot and a wider read is reported; the pass ends |
| `frame_reset`, `frame_unread`, `frame_targets` | the framing instructions of `frame`; the instructions that read slots, over ten bytes; the framing instructions | violated: see Findings |
| `loaded_image` | a 20-byte module with every table of two or three entries out of six (two pointers, words that straddle them, a carry, one inside only by its segment, one outside), headers with odd extents, load segments 0, 0x1000, 0xFFFF, five maps | untouched bytes stay; relocated words are sums; addresses name their bytes, per block; relocated pointers read as the listing's addresses; entry points are found |
| `loaded_targets` | the same files at load segment 0x2000 | violated: see Findings |
| `procedures` | units of one and two blocks, every table of up to two entries out of eight (valid, at the end of a block, of no block, unaligned, unassigned), three entries, eight refused headers | spans own their blocks; a routine is its own code; selection follows the tables; every call ends |

Bounds. Six bytes hold the longest of the instructions over the alphabet of
`decoder` (opcode, ModRM, disp16, imm16) or a prefix before most of the others,
and two short instructions one after the other; the proofs below cover every
length. Three-byte images hold an instruction that starts before `--end` and runs past it, a
placeholder followed by an instruction inside the bytes it failed on, and a seed
inside an instruction. Ten bytes hold a prologue, an allocation, the whole epilogue
and a return, or two epilogues over an empty frame, or a prologue, two accesses,
`POP BP` and a return, and two accesses are what it takes for slots to overlap or
gap. Two prefixes are what it takes for one to replace another of its family or to
stand on either side of one of another. The buffers of `rendering` are loaded at 0 and
below 0x10000, where addresses cross a 64K boundary, at 0x10000 with the right
segment, one beyond its 64K on each side and no paragraph, and at the end of the
first megabyte and above; a register file sets everything to 0, one makes every
sum wrap, one puts a word at the end of its segment. Three relocation entries are what it takes for a word to be named
twice and straddled. Two blocks and three entries give a next entry in the same
block, a next block and a repeated entry. Deadlock is not checked in the machines
that model a call or a program that ends.

Fairness. `Decoder!FairSpec` has weak fairness on the steps of a decode and none
on the calls: a decode that was entered runs, a caller need not call.
`LinearSweep!FairSpec` has weak fairness on the next step: `main` is one
sequential program that blocks on nothing. `RoutineFrame` and `ProcedureSelection`
are one call each, with weak fairness on the next step. `LoadedImage` and
`Rendering` state no liveness and no fairness of their own.

## Proofs

What is said of the decoder is for every set of buffers and every table that satisfies the named
assumptions of `Decoder` (`BufferAssumption`, `TableAssumption`,
`PrefixAssumption`), which TLC evaluates in the runs.

* `TypeCorrect`: `TypeOK` is inductive. The step that needs work is the row: the
  group re-index lands inside the table because `reg` is below 8.
* `BytesConsumed`: `BytesAreConsumed` is not inductive. `Bookkeeping` adds that
  an idle decoder has an empty record, that a decode in progress has no answer
  yet, and that record and answer are slices of the input from `start` to
  `position`. The step that needs work is an operand: `RecordedIsRead` shows that
  encoding the number again gives the bytes that were read, and sequence lemmas
  that slices extend.
* `EofClassified`: from `Bookkeeping` and the types.
* `OperandsFindTheirModRm`: from `ModRmIsHeld`, for a table that is consistent;
  `ShippedTableIsConsistent` proves that the shipped one is.
* `DecoderImplementsStream`: `Located` says that in each phase the cursor is where
  the declared extent of the instruction says the phase begins; a step inside a
  decode stutters, the step that returns is `Decode`, the one that runs out is
  `AtEnd` or `CutOff`.

* `PartsTile`: `PartsInPlace` says at every phase what the record is laid out as so
  far, the immediates being what follows opcode, ModRM byte and displacement. The step
  that needs work is an operand, which appends the same bytes to the record and to the
  immediates (`TilingWidens`).
* `NumbersAreSpelt`: the property names *all* immediates of the instruction, so it
  holds of tables whose rows take at most one (`OneImmediate`), and
  `ShippedTableHasOneImmediate` discharges that for the shipped one. The invariant,
  `NumbersInPlace`, adds that the displacement held since the ModRM byte is still the one
  its bytes spell and that the first operand is spelt while the second is read; byte
  codecs are `SignedIsSpelt` and `ImmediateIsSpelt`.

* `UntouchedBytesStay` and `FixupsAreSums` (`LoadedImage_proofs`), for every file,
  table and load segment. `FixupsAddUp` speaks of the words patched so far and is
  not inductive: a word not patched yet must hold what the file has, so `AllSums`
  says the same of every word of the module. The step that needs work is a fixup
  of the word itself, where the number of entries that named it grows by one
  (`DoneGrows`) and the sum modulo 16 bits absorbs one more load segment
  (`OneMore`). `TypeCorrect` of that module needs that the header was long enough
  for its fields, `HeaderSeen`. The assumptions are that files are byte strings
  and load segments integers.
* Of `LoadedImage`: `ImageTypeCorrect`, `EveryAddressNamesItsByte`,
  `EveryBlockHasItsSegment`, `EveryPointerReadsAsListed`, `DefaultLoadFindsThem`, for
  every file, load segment and map. `ImageIInv` says how far the load module has come at each
  stage of `main` and carries the loader's invariant below it, so that sums and untouched bytes
  hold in every listing (`FixupsAreSumsInListings`). The rest is division by 16: a paragraph
  and the offset in it add up, and a block's base moves with the words that name it.
  The maps are those a file can hold (`MapsAssumption`), and none of them is the value
  that stands for no map (`NoneAssumption`).

* `SweepLinesTile`, `EveryByteListedOnce`, `OneLinePerPosition` and
  `ExitStatusExplained` (`LinearSweep_proofs`), for every image, every instruction
  length that fits it and every command line; the bounds `MaxImage` and `MaxSeeds` are any
  naturals. `StepsPrint` reduces the seven actions to four effects: nothing, a sweep
  line, a seed, a frame. `Bookkeeping` ties the lines to `emitted` (a sweep line's
  position is in it, a placeholder's has no instruction, everything printed by the
  sweep is behind `position`), which is what keeps a seed from being printed twice;
  `Tiling` adds that the sweep's lines are in order and reach to `position`. That the
  seeds are visited in ascending order needs a least element, `LeastIsLeast`, from the
  well-foundedness of the naturals.

* `TypeCorrect`, `EvidenceStaysInside`, `ConventionIsTheLastEpilogues`,
  `SlotsTileTheArgumentRun` and `EveryArgumentReadIsASlot` (`RoutineFrame_proofs`), for
  every sequence of instructions whose lengths are positive and whose operands are of
  the form the decoder builds (`InstructionsAssumption`: a plain immediate is no
  negative number, a signed one and a branch are integers, a size is a byte or a word).
  Each local of the pass remembers something of what was seen: `Remembered` ties
  `previous` and `before` to the history, `EvidenceIsInside` and `ConventionIsRemembered`
  are inductive with it (the latter says what the pass recognises, the latest `SUB SP`
  deciding, and gives `ConventionIsObserved` by `RecognisedAreEpilogues`), `ReadsAreCovered` and `ReadsAreBounded` say that every access
  found is a read of an instruction seen and fits 16 bits, and `Derived` that the slots are the function
  of the accesses they are after the pass.
* `TypeCorrect`, `EveryByteHasItsSpan`, `NoNeighbourCompletesARoutine` and
  `DeclaredEntriesAreSelected` (`ProcedureSelection_proofs`), for every unit, block
  and offset. `BlocksRead` is the running sum of block sizes, `EntriesRead` the entries
  checked so far, `Selected` what the choice made says of both.

* `Rendering_proofs`, for every input, address, code segment, option record and register
  file. `RenderingIsDecoding` is the refinement: a rendering stutters in the decoder, so
  every theorem of `Decoder_proofs` is one of `RenderSpec` (`RenderedPartsTile`,
  `RenderedNumbersAreSpelt` say so of two). The other theorems need what the decoder's do not: the
  *row* a returned record came from. `RowInForce` ties record and row in every phase,
  `NoDisplacement` the ModRM byte and the displacement, `TextIsAnswer` the text to the record and the
  arguments it was asked for; `PartsInPlace` and `BufferStays` are the decoder's layout and input. Their
  conjunction gives `Decoded(result)`: an opcode that is no prefix, with its row's
  operands resolved from some bytes. From there the proofs are about operators:
  * `TargetsAreRight`: arithmetic modulo 64K and 1M on `NearTargetText` and `normalize`.
  * `NamesAreInstructions`: the rows that stand for no instruction are the prefixes, the
    groups and the fallbacks; no spelling or alias leads back to one of them. It
    is false of a prefix set and a table that disagree.
  * `ListingsReadBack`, `NasmTextsReadBack`: for every template of the shipped table,
    what is printed of an operand reads as what the operand means; then the
    mnemonics that print their operands otherwise (shifts, string operations, far
    pointers, implied operands) one by one. NASM's operands are compared without their width, which
    that style does not print.
  * `RecordingsPass`, `MovesAreCaught`: the pointers a test may end at are those
    the reference gives for the operation; the address the check computes is the first
    byte of the operand the reference names, and a word's second byte is the one the
    check tolerates. What is left is arithmetic in 16 and 20 bits.
  * `TextsAreTyped`: the shape of a text, from the operand's kinds.

  They hold of the shipped table (`DECODE = DecodeRows`), those about names and NASM's
  prefixes also of the shipped prefix bytes (`PrefixFlags = PrefixBytes`), those of the
  hardware check for buffers below 64K, as a recorded pointer wraps there
  (the recordings' buffers are the bytes of one instruction). The assumptions on the
  constants (`ContextAssumption`, `OptionsAssumption`, `RegisterFilesAssumption`) are
  types.

Only model-checked: liveness (`DecodeReturns`, `Terminates`), which under fairness is
beyond the prover. Every other property of a passing run is a theorem.

## Findings

* `cli.py:217-220` says the output stays sorted with the seeds in it; they are
  sorted among themselves and printed after the sweep.

* `frame.py:156-158` and 206-207 ask an allocated frame for the reset of SP before its
  epilogue counts, and the code asks the latest `SUB SP` only: after `SUB SP,2` and
  `SUB SP,0` a `POP BP` and `RET` are taken for an epilogue (214).
* `frame.py:298` calls every slot without a read one inside the popped run, also
  when the run is longer than what is popped because of a later read.
* `frame.py:94` documents near targets as linear addresses; they are offsets
  modulo 64K.
* `README.md:35-38` says the order-preserving Ghidra text, for semantic comparisons,
  retains segment prefixes, and `ghidra.py:213-215` that far indirect calls and jumps are
  the one place an override is not printed. `26 D7` prints as XLAT: its operand is not
  printed, so neither is its override.
* `frame.py:365` promises the entry points the relocation table implies; they are
  found for images loaded at paragraph 0x1000 (or not relocated) only.

Further differences that were met and have no run:

* `displacement_bytes` is documented as part of the encoding by parts
  (`instruction.py:26-28`, `operands.py:97-99`) and nothing ever fills it;
* a flat map is not "one very large block" (`segments.py:148-150` and 154); locals
  include offset 0, the saved BP (`frame.py:234`); a page count of zero makes the load
  module end before the end of the file (`mz.py:100-102`); `relocate` documents the
  segment field as always zero (`mz.py:59-61`) and `load` as not always (`mz.py:104-108`);
* `check_sst.py:235`: a word at offset 0xFFFF of its segment of which only the high
  byte changed is counted as ADDRESS MISMATCH, as that byte is at offset 0 and the
  tolerance adds 1 to the linear address (`81 07 00 01` with BX 0xFFFF);
* F1 decodes as a LOCK (`decode.py:40-41`) and the NASM style, said to preserve LOCK
  (`nasm_formatter.py:16-17`), writes one for F0 only; the listing style writes none;
* of F2 and F3 before one string operation the NASM style takes the last (as
  `README.md:25` says), the listing style F2 (`ghidra.py:243`);
* `ghidra.py:33-34` says relative branches wrap in 20 bits, 338-346 wrap them in 16;
  a far pointer above the first megabyte has a segment of five digits;
* the number of an `ESC` is in neither text, the size of a memory operand and whether
  an indirect call is far are not in the NASM style (`FF 1F` and `FF 17`, `C6` and
  `C7`); immediates 0Ah to 0Dh differ from registers there by letter case alone.

## Plan

1. Lists of the command line in full: the address column of `LoadedImage` on the
   lines of `LinearSweep` (`ListingLines`), so that order, seeds and blocks meet.
2. The hardware check over a suite: its counters, and the tests it cannot decode.

## Not modelled

The prologue scan of `frame.py`, the JSON form of segment maps, argument parsing, file
reading. Of the renderers: spelling and layout (hex, letter case, padding, the token
sink, `render_line`, `memory_operand_size`), the size disambiguation and the registers
and addresses of the 386, which no 8086 decode produces. Of the hardware check: the sums
over a suite, undecodable tests, `make_corpus`. The other tools (`gen_*`, `compare_*`)
translate or compare text files. `raw_prefix_flags`, `effective_prefix_flags` and
`segment_override` are never written by this decoder and are left out of the record.
