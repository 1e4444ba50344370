---------------------------- MODULE RoutineFrame ----------------------------
(***************************************************************************)
(* The reading of a routine's frame (frame.py, analyse_frame): one pass    *)
(* over the instructions of [start, end), watching for the prologue, for   *)
(* the epilogue and for accesses relative to BP, and then the argument     *)
(* slots those add up to.                                                  *)
(*                                                                         *)
(* What the bytes hold is decided as they are read: every position is read *)
(* once, so the next instruction is any of Instructions[range].            *)
(***************************************************************************)
EXTENDS Integers, Sequences, FiniteSets

CONSTANTS
  Ranges,        \* the <<start, end, len(image)>> analyse_frame is called with
  Instructions,  \* the instructions the image of a range may hold
  None           \* Python's None

ASSUME RangesAssumption == Ranges \subseteq Int \X Int \X Nat
ASSUME NoneAssumption   == None \notin Int
\* What the decoder hands out: plain immediates are unsigned, a sign-extended
\* one, a branch and a displacement need not be, and a size is one or two bytes.
ASSUME InstructionsAssumption ==
  \A r \in Ranges : \A i \in Instructions[r] :
    /\ i.length \in Nat \ {0}
    /\ \A o \in {i.operand1, i.operand2} :
         /\ o.kind \in {"imm8", "imm16"} => o.value \in Nat
         /\ o.kind \in {"imm8s", "rel16", "addr16"} => o.value \in Int
         /\ o.kind = "addr16" => o.size \in {1, 2}

ARGUMENT_BASE_NEAR == 4
ARGUMENT_BASE_FAR  == 6
FarPointerWidth    == 4

VARIABLES
  range,      \* the arguments: start, end and the size of the image
  pc,         \* "entry", "body", "slots", "done", or "ValueError"
  position,   \* the local of that name
  seen,       \* the instructions decoded so far, each with its position
  frame,      \* the RoutineFrame under construction
  positive,   \* widest read at each positive offset from BP
  reading     \* the other sets and lists the pass fills

vars == << range, pc, position, seen, frame, positive, reading >>

start == range[1]
end   == range[2]
size  == range[3]

\* None before there are two instructions behind; both false in every guard.
NoInstruction == [mnemonic |-> "None"]
previous == IF Len(seen) > 0 THEN seen[Len(seen)].is     ELSE NoInstruction
before   == IF Len(seen) > 1 THEN seen[Len(seen) - 1].is ELSE NoInstruction

Init ==
  /\ range \in Ranges
  /\ pc = "entry"
  /\ position = range[1]
  /\ seen = << >>
  /\ frame = [has_bp_frame |-> FALSE, frame_size |-> None,
              return_discipline |-> "none", pops |-> None,
              arguments |-> {}, notes |-> {}]
  /\ positive = << >>
  /\ reading = [negative |-> {}, globals_touched |-> {},
                near_calls |-> << >>, far_calls |-> << >>]

Enter ==
  /\ pc = "entry"
  /\ pc' = IF 0 <= start /\ start <= end /\ end <= size THEN "body" ELSE "ValueError"
  /\ UNCHANGED << range, position, seen, frame, positive, reading >>

-----------------------------------------------------------------------------
(* What an instruction says about the frame.                               *)

IsRegister(operand, r) == operand.kind = "reg16" /\ operand.value = r

Moves(i, to, from) ==
  i.mnemonic = "MOV" /\ IsRegister(i.operand1, to) /\ IsRegister(i.operand2, from)

Allocates(i) ==
  /\ i.mnemonic = "SUB"
  /\ IsRegister(i.operand1, "SP")
  /\ i.operand2.kind \in {"imm8", "imm8s", "imm16"}

\* POP BP, and MOV SP,BP before it unless the latest SUB SP, if any, took nothing.
PopsBP(i) == i.mnemonic = "POP" /\ IsRegister(i.operand1, "BP")

\* Mutant: the stack pointer is not checked.
RestoresWithoutReset == frame.has_bp_frame /\ PopsBP(previous)

RestoresFrame ==
  /\ frame.has_bp_frame
  /\ PopsBP(previous)
  /\ frame.frame_size \in {None, 0} \/ Moves(before, "SP", "BP")

Epilogue(i) == i.mnemonic \in {"RET", "RETF"} /\ RestoresFrame

PoppedBy(i) == IF i.operand1.kind \in {"imm8", "imm16"} THEN i.operand1.value ELSE 0

Memory(i) == {o \in {i.operand1, i.operand2} : o.kind = "addr16"}
FrameAccesses(i) == {o \in Memory(i) : o.base = "bp"}
Globals(i) == {o.value % 65536 : o \in {m \in Memory(i) : m.base = "disp16"}}

\* The ModRM byte of LES and LDS gives the width of half of what they read.
Width(i, operand) == IF i.mnemonic \in {"LES", "LDS"} THEN FarPointerWidth ELSE operand.size

Reads(i) == {<< o.value, Width(i, o) >> : o \in {a \in FrameAccesses(i) : a.value > 0}}

\* Mutant: the latest read of a slot replaces the widest.
WidestIsLatest(old, reads) ==
  [o \in DOMAIN old \union {r[1] : r \in reads} |->
     IF \E r \in reads : r[1] = o THEN (CHOOSE r \in reads : r[1] = o)[2] ELSE old[o]]

Widest(old, reads) ==
  [o \in DOMAIN old \union {r[1] : r \in reads} |->
     CHOOSE w \in {r[2] : r \in reads} \union {old[p] : p \in DOMAIN old} :
       /\ \/ << o, w >> \in reads
          \/ o \in DOMAIN old /\ old[o] = w
       /\ \A r \in reads : r[1] = o => r[2] <= w
       /\ o \in DOMAIN old => old[o] <= w]

\* Mutant: the target is not wrapped.
NearTargetUnwrapped(i) == position + i.length + i.operand1.value

NearTarget(i) == (position + i.length + i.operand1.value) % 65536

NearCalls(i) == IF i.mnemonic = "CALL" /\ i.operand1.kind = "rel16"
                THEN << NearTarget(i) >> ELSE << >>
FarCalls(i)  == IF i.mnemonic = "CALLF" /\ i.operand1.kind = "far16"
                THEN << i.operand1.value >> ELSE << >>

\* Mutant: the reader is over the image, not over the image up to end.
DecodesInImage(i) == position + i.length <= size

Decodes(i) == position + i.length <= end

-----------------------------------------------------------------------------
(* The pass.                                                               *)

ReadInstruction(i) ==
  /\ pc = "body"
  /\ position < end
  /\ Decodes(i)
  /\ frame' = [frame EXCEPT
       !.has_bp_frame = @ \/ Moves(i, "BP", "SP"),
       !.frame_size = IF Allocates(i) THEN i.operand2.value ELSE @,
       !.return_discipline =
          IF ~Epilogue(i) THEN @ ELSE IF i.mnemonic = "RETF" THEN "far" ELSE "near",
       !.pops = IF Epilogue(i) THEN PoppedBy(i) ELSE @]
  /\ positive' = Widest(positive, Reads(i))
  /\ reading' = [reading EXCEPT
       !.negative = @ \union {o.value : o \in {a \in FrameAccesses(i) : a.value <= 0}},
       !.globals_touched = @ \union Globals(i),
       !.near_calls = @ \o NearCalls(i),
       !.far_calls = @ \o FarCalls(i)]
  /\ seen' = Append(seen, [at |-> position, is |-> i])
  /\ position' = position + i.length
  /\ UNCHANGED << range, pc >>

StopEarly(i) ==
  /\ pc = "body"
  /\ position < end
  /\ ~Decodes(i)
  /\ frame' = [frame EXCEPT !.notes = @ \union {<< "did not decode", position >>}]
  /\ pc' = "slots"
  /\ UNCHANGED << range, position, seen, positive, reading >>

\* Mutant: the loop is left only past the end.
BodyEndsPast ==
  /\ pc = "body"
  /\ position > end
  /\ pc' = "slots"
  /\ UNCHANGED << range, position, seen, frame, positive, reading >>

BodyEnds ==
  /\ pc = "body"
  /\ position >= end
  /\ pc' = "slots"
  /\ UNCHANGED << range, position, seen, frame, positive, reading >>

-----------------------------------------------------------------------------
(* The argument slots.                                                     *)

Least(S)    == CHOOSE x \in S : \A y \in S : x <= y
Greatest(S) == CHOOSE x \in S : \A y \in S : x >= y

base == IF frame.return_discipline = "far" THEN ARGUMENT_BASE_FAR ELSE ARGUMENT_BASE_NEAR

\* One past the furthest byte read, wherever the reads lie.
read_end ==
  IF DOMAIN positive = {} THEN base ELSE Greatest({o + positive[o] : o \in DOMAIN positive})

\* Mutant: what the callee pops is taken for the extent.
limitOfPops == base + frame.pops

limit == Greatest({base + frame.pops, read_end})

\* Mutant: slots are derived from reads alone.
startsFromReads == {o \in DOMAIN positive : o >= base /\ o < limit}

starts == {o \in {base} \union {p \in DOMAIN positive : p >= base} : o < limit}

Slot(o) ==
  [offset |-> o,
   width  |-> Least({s \in starts \union {limit} : s > o}) - o,
   accessed_width |-> IF o \in DOMAIN positive THEN positive[o] ELSE 0]

Notes(arguments) ==
  {<< "never read", a.offset >> : a \in {b \in arguments : b.accessed_width = 0}}
  \union (IF read_end > base + frame.pops THEN {<< "pops only", read_end - 1 >>} ELSE {})
  \union {<< "beyond", o >> : o \in {p \in DOMAIN positive : p >= limit}}
  \union {<< "read wider", a.offset >> :
            a \in {b \in arguments : b.accessed_width > b.width}}

DeriveArguments ==
  LET arguments == {Slot(o) : o \in starts}
  IN /\ pc = "slots"
     /\ frame' = IF frame.pops = None THEN frame
                 ELSE [frame EXCEPT !.arguments = arguments,
                                    !.notes = @ \union Notes(arguments)]
     /\ pc' = "done"
     /\ UNCHANGED << range, position, seen, positive, reading >>

Next ==
  \/ Enter
  \/ \E i \in Instructions[range] : ReadInstruction(i)
  \/ \E i \in Instructions[range] : StopEarly(i)
  \/ BodyEnds
  \/ DeriveArguments

Spec == Init /\ [][Next]_vars

\* analyse_frame is one sequential call.
FairSpec == Spec /\ WF_vars(Next)

-----------------------------------------------------------------------------
(* Properties.                                                             *)

Word16 == 0..65535
Slots == [offset : Nat, width : Nat \ {0}, accessed_width : Nat]

\* The call's locals: a slot is never empty, and a near target is an offset
\* of the 16-bit instruction pointer.
TypeOK ==
  /\ range \in Ranges
  /\ pc \in {"entry", "body", "slots", "done", "ValueError"}
  /\ position \in Int
  /\ \A k \in DOMAIN seen : seen[k].at \in Int /\ seen[k].is \in Instructions[range]
  /\ frame.has_bp_frame \in BOOLEAN
  /\ frame.frame_size \in Int \union {None}
  /\ frame.return_discipline \in {"none", "near", "far"}
  /\ frame.pops \in Nat \union {None}
  /\ frame.pops = None <=> frame.return_discipline = "none"
  /\ frame.arguments \subseteq Slots
  /\ \A o \in DOMAIN positive : o > 0 /\ positive[o] \in {1, 2, 4}
  /\ \A o \in reading.negative : o <= 0
  /\ reading.globals_touched \subseteq Word16
  /\ reading.near_calls \in Seq(Word16)

\* Nothing outside the routine is evidence about it: every instruction that
\* was read lies in [start, end), end to end, and a return that end cuts off
\* borrows no byte of the next routine.
EvidenceIsInside ==
  pc \notin {"entry", "ValueError"} =>
    /\ position <= end
    /\ \A k \in DOMAIN seen :
         seen[k].at = IF k = 1 THEN start ELSE seen[k - 1].at + seen[k - 1].is.length
    /\ Len(seen) > 0 => position = seen[Len(seen)].at + seen[Len(seen)].is.length

AllocatesLocals(i)  == Allocates(i) /\ i.operand2.value # 0
AllocatesNothing(i) == Allocates(i) /\ i.operand2.value = 0

\* The returns that undo a frame, as analyse_frame documents them: MOV BP,SP
\* somewhere before, POP BP right before, and MOV SP,BP before that unless no
\* local was allocated.
Epilogues ==
  {k \in DOMAIN seen :
     /\ seen[k].is.mnemonic \in {"RET", "RETF"}
     /\ k > 1 /\ PopsBP(seen[k - 1].is)
     /\ \E j \in 1..(k - 1) : Moves(seen[j].is, "BP", "SP")
     /\ \/ k > 2 /\ Moves(seen[k - 2].is, "SP", "BP")
        \/ \A j \in 1..(k - 1) : ~AllocatesLocals(seen[j].is)}

\* A SUB SP,0 after an allocation, which makes the pass forget it.
AllocationIsForgotten ==
  \E l \in DOMAIN seen : \E j \in 1..(l - 1) :
    AllocatesLocals(seen[j].is) /\ AllocatesNothing(seen[l].is)

\* The calling convention is the one of the last return that undoes the frame,
\* and unknown when the pass met none, through any number of prologues,
\* allocations and returns but one that makes the pass forget an allocation;
\* what it does then is AllocatedFrameNeedsReset.
ConventionIsObserved ==
  ~AllocationIsForgotten =>
    IF Epilogues = {}
    THEN frame.return_discipline = "none"
    ELSE LET last == seen[Greatest(Epilogues)].is
         IN /\ frame.return_discipline = IF last.mnemonic = "RETF" THEN "far" ELSE "near"
            /\ frame.pops = PoppedBy(last)

\* Every byte of the argument run, popped or read, is in one slot and no byte
\* outside it is in any: no slot is lost between two reads, before the first or
\* after the last, and none overlaps another.
SlotBytes(a) == a.offset..(a.offset + a.width - 1)
ReadBytes == UNION {o..(o + positive[o] - 1) : o \in DOMAIN positive}
SlotsTileTheRun ==
  pc = "done" /\ frame.pops # None =>
    /\ \A b \in (base..(base + frame.pops - 1)) \union {r \in ReadBytes : r >= base} :
         Cardinality({a \in frame.arguments : b \in SlotBytes(a)}) = 1
    /\ \A a \in frame.arguments : \A b \in SlotBytes(a) :
         base <= b /\ (b < base + frame.pops \/ \E r \in ReadBytes : b <= r)

\* Every access above the return address has a slot that starts where it
\* starts, and one that reaches into the next slot is reported, whatever later
\* accesses of the same slot look like.
EveryReadHasItsSlot ==
  pc = "done" /\ frame.pops # None =>
    \A k \in DOMAIN seen : \A r \in Reads(seen[k].is) :
      r[1] >= base =>
        \E a \in frame.arguments :
          /\ a.offset = r[1]
          /\ r[2] > a.width => << "read wider", r[1] >> \in frame.notes

\* The pass ends, undecodable bytes included.
Terminates == <>(pc \in {"done", "ValueError"})

\* The note on an unread slot (frame.py) says it is inside the popped run.
UnreadIsPopped ==
  \A n \in frame.notes :
    n[1] = "never read" => n[2] < base + frame.pops

\* frame.py, analyse_frame: POP BP and RET are an epilogue when no local
\* allocation was observed; an allocated frame still needs the SP reset.
AllocatedFrameNeedsReset == Epilogues = {} => frame.return_discipline = "none"

\* frame.py, RoutineFrame: near targets as linear addresses.
NearTargetsAreLinear ==
  \A k \in DOMAIN seen :
    seen[k].is.mnemonic = "CALL" =>
      \E t \in DOMAIN reading.near_calls :
        reading.near_calls[t] =
          seen[k].at + seen[k].is.length + seen[k].is.operand1.value
=============================================================================
