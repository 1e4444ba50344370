------------------------- MODULE ProcedureSelection -------------------------
(***************************************************************************)
(* Selection of a procedure of a TPU9 unit (tpu9.py, primary_routine): the *)
(* code section, the block and entry tables, the spans the entries own,    *)
(* the span selected, and its decode through the first return.             *)
(*                                                                         *)
(* A unit is the numbers of its header and the records of its two tables.  *)
(* Its code is decided as it is read: every position is read once, so the  *)
(* next instruction is any of Instructions, and the bytes at the entry are *)
(* a prologue or not.                                                      *)
(***************************************************************************)
EXTENDS Integers, Sequences, FiniteSets

CONSTANTS
  Units,         \* the units primary_routine is called with
  CodeOffsets,   \* the values of code_offset besides None
  Instructions,  \* the instructions code may hold
  None           \* Python's None

ASSUME UnitsAssumption ==
  \A u \in Units :
    /\ u.is_tpu9 \in BOOLEAN /\ u.size \in Nat
    /\ \A n \in {u.symbols, u.code_size, u.entries_at, u.blocks_at, u.blocks_end} : n \in Nat
    /\ u.blocks \in Seq(Nat) /\ u.entries \in Seq(Nat \X Nat)
ASSUME OffsetsAssumption == CodeOffsets \subseteq Int
\* None is neither an offset nor a span.
ASSUME NoneAssumption == None \notin Int /\ None \notin Int \X Int
ASSUME LengthAssumption ==
  \A i \in Instructions : i.length \in Nat \ {0} /\ i.returns \in BOOLEAN

RECORD_SIZE    == 8
PrologueLength == 3
Unassigned     == << 65535, 65535 >>

VARIABLES
  unit,      \* the argument data
  options,   \* the arguments code_offset and require_prologue
  pc,        \* "header", "blocks", "entries", "select", "decode", "done", "ValueError"
  blocks,    \* <<base, size>> of each block record read so far
  read,      \* how many entry records have been read
  offsets,   \* the <<block, offset>> of the local entries among them
  span,      \* the selected span, <<start, limit>>
  position,  \* the local of primary_routine
  routine    \* what primary_routine returns, as <<start, end>>

vars == << unit, options, pc, blocks, read, offsets, span, position, routine >>

start   == ((unit.symbols + 15) \div 16) * 16
end     == start + unit.code_size
running == IF blocks = << >> THEN 0 ELSE blocks[Len(blocks)][1] + blocks[Len(blocks)][2]

Init ==
  /\ unit \in Units
  /\ options \in [code_offset : CodeOffsets \union {None}, require_prologue : BOOLEAN]
  /\ pc = "header"
  /\ blocks = << >>
  /\ read = 0
  /\ offsets = {}
  /\ span = None
  /\ position = 0
  /\ routine = None

Fail ==
  /\ pc' = "ValueError"
  /\ UNCHANGED << unit, options, blocks, read, offsets, span, position, routine >>

-----------------------------------------------------------------------------
(* The tables.                                                             *)

HasCode == unit.is_tpu9 /\ unit.size >= 64 /\ unit.symbols >= 64 /\ unit.code_size > 0
           /\ end <= unit.size

HasTables ==
  /\ 64 <= unit.entries_at /\ unit.entries_at <= unit.blocks_at
  /\ unit.blocks_at < unit.blocks_end /\ unit.blocks_end <= unit.symbols
  /\ (unit.blocks_at - unit.entries_at) % RECORD_SIZE = 0
  /\ (unit.blocks_end - unit.blocks_at) % RECORD_SIZE = 0

ReadHeader ==
  /\ pc = "header"
  /\ HasCode /\ HasTables
  /\ pc' = "blocks"
  /\ UNCHANGED << unit, options, blocks, read, offsets, span, position, routine >>

RefuseHeader == pc = "header" /\ ~(HasCode /\ HasTables) /\ Fail

NextBlock == << running, unit.blocks[Len(blocks) + 1] >>

ReadBlock ==
  /\ pc = "blocks"
  /\ Len(blocks) < Len(unit.blocks)
  /\ blocks' = Append(blocks, NextBlock)
  /\ UNCHANGED << unit, options, pc, read, offsets, span, position, routine >>

BlocksEnd ==
  /\ pc = "blocks"
  /\ Len(blocks) = Len(unit.blocks)
  /\ running = unit.code_size
  /\ pc' = "entries"
  /\ UNCHANGED << unit, options, blocks, read, offsets, span, position, routine >>

BlocksDisagree ==
  /\ pc = "blocks"
  /\ Len(blocks) = Len(unit.blocks)
  /\ running # unit.code_size
  /\ Fail

\* A block selector is an offset into the block table.
Selects(entry) == entry[1] \div RECORD_SIZE + 1

\* Mutant: an entry may lie one past its block.
OwnedOrAtEnd(entry) ==
  /\ entry[1] % RECORD_SIZE = 0
  /\ Selects(entry) <= Len(blocks)
  /\ entry[2] <= blocks[Selects(entry)][2]

Owned(entry) ==
  /\ entry[1] % RECORD_SIZE = 0
  /\ Selects(entry) <= Len(blocks)
  /\ entry[2] < blocks[Selects(entry)][2]

ReadEntry ==
  LET entry == unit.entries[read + 1]
  IN /\ pc = "entries"
     /\ read < Len(unit.entries)
     /\ entry = Unassigned \/ Owned(entry)
     /\ read' = read + 1
     /\ offsets' = IF entry = Unassigned THEN offsets
                   ELSE offsets \union {<< Selects(entry), entry[2] >>}
     /\ UNCHANGED << unit, options, pc, blocks, span, position, routine >>

RefuseEntry ==
  /\ pc = "entries"
  /\ read < Len(unit.entries)
  /\ unit.entries[read + 1] # Unassigned
  /\ ~Owned(unit.entries[read + 1])
  /\ Fail

EntriesEnd ==
  /\ pc = "entries"
  /\ read = Len(unit.entries)
  /\ pc' = "select"
  /\ UNCHANGED << unit, options, blocks, read, offsets, span, position, routine >>

-----------------------------------------------------------------------------
(* The spans and the one selected.                                         *)

Least(S) == CHOOSE x \in S : \A y \in S : x <= y

\* Mutant: an entry owns the rest of its block.
LimitOfBlock(o) == blocks[o[1]][2]

\* The next distinct entry of the block, or its end.
Limit(o) == Least({p[2] : p \in {q \in offsets : q[1] = o[1] /\ q[2] > o[2]}}
                  \union {blocks[o[1]][2]})

SpanOf(o) == << start + blocks[o[1]][1] + o[2], start + blocks[o[1]][1] + Limit(o) >>

procedure_spans == {SpanOf(o) : o \in offsets}

Eligible ==
  IF options.code_offset = None THEN procedure_spans
  ELSE {s \in procedure_spans : s[1] = start + options.code_offset}

\* Mutant: the first span that is long enough for a prologue is taken.
EarliestThatFits ==
  CHOOSE s \in Eligible :
    \/ s[2] - s[1] >= PrologueLength
       /\ \A t \in Eligible : t[2] - t[1] >= PrologueLength => s[1] <= t[1]
    \/ \A t \in Eligible : t[2] - t[1] < PrologueLength

\* spans[0] of the sorted tuple.
Earliest == CHOOSE s \in Eligible : \A t \in Eligible : s[1] <= t[1]

\* Whether there is a prologue is the code's choice, where it has room for one.
SelectSpan ==
  /\ pc = "select"
  /\ options.code_offset # None => options.code_offset >= 0
  /\ Eligible # {}
  /\ options.require_prologue => Earliest[2] - Earliest[1] >= PrologueLength
  /\ span' = Earliest
  /\ pc' = "decode"
  /\ UNCHANGED << unit, options, blocks, read, offsets, position, routine >>

RefuseSelection ==
  /\ pc = "select"
  /\ \/ options.code_offset # None /\ options.code_offset < 0
     \/ Eligible = {}
     \/ options.require_prologue
  /\ Fail

-----------------------------------------------------------------------------
(* The decode of the span.                                                 *)

length == span[2] - span[1]

\* Mutant: the decoder is over the code section, not over the span.
DecodesInCode(i) == span[1] + position + i.length <= end

Decodes(i) == position + i.length <= length

DecodeInstruction(i) ==
  /\ pc = "decode"
  /\ position < length
  /\ Decodes(i)
  /\ position' = position + i.length
  /\ IF i.returns
     THEN pc' = "done" /\ routine' = << span[1], span[1] + position' >>
     ELSE UNCHANGED << pc, routine >>
  /\ UNCHANGED << unit, options, blocks, read, offsets, span >>

\* UnexpectedEof: the span ends inside an instruction.
CutOff(i) ==
  /\ pc = "decode"
  /\ position < length
  /\ ~Decodes(i)
  /\ Fail

\* Mutant: a decode that comes to the end of the span exactly goes on.
NoReturnPast == pc = "decode" /\ position > length /\ Fail

NoReturn == pc = "decode" /\ position >= length /\ Fail

Next ==
  \/ ReadHeader
  \/ RefuseHeader
  \/ ReadBlock
  \/ BlocksEnd
  \/ BlocksDisagree
  \/ ReadEntry
  \/ RefuseEntry
  \/ EntriesEnd
  \/ SelectSpan
  \/ RefuseSelection
  \/ \E i \in Instructions : DecodeInstruction(i)
  \/ \E i \in Instructions : CutOff(i)
  \/ NoReturn

Spec == Init /\ [][Next]_vars

\* primary_routine is one sequential call.
FairSpec == Spec /\ WF_vars(Next)

-----------------------------------------------------------------------------
(* Properties.                                                             *)

\* The call's locals; a span is never empty and a result is part of its span.
TypeOK ==
  /\ unit \in Units
  /\ options.code_offset \in CodeOffsets \union {None}
  /\ pc \in {"header", "blocks", "entries", "select", "decode", "done", "ValueError"}
  /\ blocks \in Seq(Nat \X Nat) /\ Len(blocks) <= Len(unit.blocks)
  /\ read \in 0..Len(unit.entries)
  /\ offsets \subseteq (1..Len(blocks)) \X Nat
  /\ span # None => span[1] \in Nat /\ span[2] \in Nat /\ span[1] < span[2]
  /\ position \in Nat
  /\ routine # None <=> pc = "done"

\* The code a unit's tables give each block, from the records alone.
BlockStart[k \in Nat \ {0}] ==
  IF k = 1 THEN start ELSE BlockStart[k - 1] + unit.blocks[k - 1]

BlockBytes(k) == BlockStart[k]..(BlockStart[k] + unit.blocks[k] - 1)

\* The declared entries: absolute positions, by block.
Entries(k) ==
  {BlockStart[k] + unit.entries[e][2] :
     e \in {f \in DOMAIN unit.entries :
              unit.entries[f] # Unassigned /\ unit.entries[f][1] = (k - 1) * RECORD_SIZE}}
Declared == UNION {Entries(k) : k \in DOMAIN unit.blocks}

\* Every byte of a block from its first declared entry on is owned by exactly
\* one span, which starts at the nearest entry before the byte; the bytes before
\* the first entry, a literal pool, and all other bytes are owned by none.
SpansOwnTheirBlocks ==
  pc \in {"select", "decode", "done"} =>
    \A k \in DOMAIN unit.blocks : \A b \in BlockBytes(k) :
      LET before == {e \in Entries(k) : e <= b}
          owners == {s \in procedure_spans : s[1] <= b /\ b < s[2]}
      IN {s[1] : s \in owners} =
           {e \in before : \A f \in before : f <= e}

\* Code of a neighbour never completes a routine: it is cut off at the next
\* declared entry and at the end of its block.
RoutineIsItsOwn ==
  pc = "done" =>
    \E k \in DOMAIN unit.blocks :
      /\ routine[1]..(routine[2] - 1) \subseteq BlockBytes(k)
      /\ \A e \in Declared : ~(routine[1] < e /\ e < routine[2])

\* What is decoded starts at the declared entry that was asked for, or, when
\* none was, at the earliest of the unit; no convenient later entry replaces it.
SelectionIsDeclared ==
  pc \in {"decode", "done"} =>
    /\ span[1] \in Declared
    /\ IF options.code_offset = None
       THEN \A e \in Declared : span[1] <= e
       ELSE span[1] = start + options.code_offset

\* Every unit comes to a routine or to a ValueError.
Terminates == <>(pc \in {"done", "ValueError"})
=============================================================================
