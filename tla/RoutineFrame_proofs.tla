------------------------- MODULE RoutineFrame_proofs -------------------------
(***************************************************************************)
(* Theorems about RoutineFrame, for every range and every routine: any     *)
(* number of instructions, any reads and any returns.                      *)
(***************************************************************************)
EXTENDS RoutineFrame, WellFoundedInduction, FiniteSetTheorems, TLAPS

-----------------------------------------------------------------------------
(* The inductive invariant.                                                *)

\* The records have the fields the code gives them.
Shape ==
  /\ frame = [has_bp_frame |-> frame.has_bp_frame, frame_size |-> frame.frame_size,
              return_discipline |-> frame.return_discipline, pops |-> frame.pops,
              arguments |-> frame.arguments, notes |-> frame.notes]
  /\ reading = [negative |-> reading.negative, globals_touched |-> reading.globals_touched,
                near_calls |-> reading.near_calls, far_calls |-> reading.far_calls]
  /\ seen \in Seq([at : Int, is : Instructions[range]])

\* The latest of the first n - 1 instructions to allocate, if any, allocated nothing.
NothingAllocated(n) ==
  \A j \in 1..(n - 1) :
    Allocates(seen[j].is) /\ seen[j].is.operand2.value # 0
    => \E l \in (j + 1)..(n - 1) : Allocates(seen[l].is) /\ seen[l].is.operand2.value = 0

\* The returns the pass takes for an epilogue: it asks what the latest SUB SP
\* allocated, not whether one of them allocated anything.
Recognised ==
  {k \in DOMAIN seen :
     /\ seen[k].is.mnemonic \in {"RET", "RETF"}
     /\ k > 1 /\ PopsBP(seen[k - 1].is)
     /\ \E j \in 1..(k - 1) : Moves(seen[j].is, "BP", "SP")
     /\ \/ k > 2 /\ Moves(seen[k - 2].is, "SP", "BP")
        \/ NothingAllocated(k)}

\* The calling convention is the one of the last of them.
ConventionIsRemembered ==
  IF Recognised = {}
  THEN frame.return_discipline = "none"
  ELSE LET last == seen[Greatest(Recognised)].is
       IN /\ frame.return_discipline = IF last.mnemonic = "RETF" THEN "far" ELSE "near"
          /\ frame.pops = PoppedBy(last)

\* What the pass remembers of the instructions behind it.
Remembered ==
  /\ pc = "entry" => seen = << >>
  /\ Len(seen) = 0 => position = start
  /\ frame.has_bp_frame <=> \E j \in DOMAIN seen : Moves(seen[j].is, "BP", "SP")
  /\ frame.frame_size \in {None, 0} <=> NothingAllocated(Len(seen) + 1)

\* Every read is under the width remembered for its offset.
ReadsAreCovered ==
  \A k \in DOMAIN seen : \A r \in Reads(seen[k].is) :
    r[1] \in DOMAIN positive /\ r[2] <= positive[r[1]]

\* There is a furthest read.
ReadsAreBounded == \E n \in Nat : DOMAIN positive \subseteq 1..n

\* The slots and notes are those of the reads and the pops.
Derived ==
  pc = "done" /\ frame.pops # None =>
    frame.arguments = {Slot(o) : o \in starts} /\ Notes(frame.arguments) \subseteq frame.notes

IInv == /\ TypeOK /\ Shape /\ Remembered /\ EvidenceIsInside /\ ConventionIsRemembered
        /\ ReadsAreCovered /\ ReadsAreBounded /\ Derived

-----------------------------------------------------------------------------
(* Least, greatest and widest.                                             *)

\* A set of naturals that is not empty has a least one.
LEMMA LeastIsLeast ==
  ASSUME NEW S, S \subseteq Nat, S # {}
  PROVE  Least(S) \in S /\ \A y \in S : Least(S) <= y
<1> DEFINE R == {ss \in Nat \X Nat : ss[1] < ss[2]}
<1>1. IsWellFoundedOn(R, Nat)
  BY NatLessThanWellFounded DEF OpToRel
<1>2. PICK t \in S : \A y \in S : ~ (<< y, t >> \in R)
  <2> HIDE DEF R
  <2> QED  BY <1>1, WFMin
<1>3. ASSUME NEW y \in S  PROVE t <= y
  <2>1. << y, t >> \in Nat \X Nat  OBVIOUS
  <2> QED  BY <1>2, <2>1
<1> QED
  BY <1>3 DEF Least

\* One that has an upper bound has a greatest.
LEMMA GreatestIsGreatest ==
  ASSUME NEW S, S \subseteq Nat, S # {}, NEW n \in Nat, \A x \in S : x <= n
  PROVE  Greatest(S) \in S /\ \A y \in S : y <= Greatest(S)
<1> DEFINE T == {n - x : x \in S}
<1>1. T \subseteq Nat /\ T # {}
  <2>1. ASSUME NEW x \in S  PROVE n - x \in Nat
    <3>1. x \in Nat /\ x <= n
      OBVIOUS
    <3> QED  BY <3>1
  <2> QED  BY <2>1
<1>2. Least(T) \in T /\ \A y \in T : Least(T) <= y
  <2> HIDE DEF T
  <2> QED  BY <1>1, LeastIsLeast
<1>3. PICK t \in T : \A y \in T : t <= y
  <2> HIDE DEF T
  <2> QED  BY <1>2
<1>4. PICK x \in S : t = n - x
  OBVIOUS
<1>5. \A y \in S : x >= y
  <2>1. ASSUME NEW y \in S  PROVE x >= y
    <3>1. n - y \in T /\ t \in Nat
      BY <1>1
    <3>2. n - x <= n - y /\ x \in Nat /\ y \in Nat
      BY <1>3, <1>4, <3>1
    <3> QED  BY <3>2
  <2> QED  BY <2>1
<1>6. Greatest(S) \in S /\ \A y \in S : Greatest(S) >= y
  BY <1>5 DEF Greatest
<1>7. Greatest(S) \in Nat /\ \A y \in S : y \in Nat
  BY <1>6
<1> QED
  BY <1>6, <1>7

\* The widest read of an offset, and whose width that is.
LEMMA WidestIsWidest ==
  ASSUME NEW old, \A o \in DOMAIN old : old[o] \in {1, 2, 4},
         NEW reads, \A r \in reads : r = << r[1], r[2] >> /\ r[2] \in {1, 2, 4},
         NEW new, new = Widest(old, reads)
  PROVE  /\ DOMAIN new = DOMAIN old \union {r[1] : r \in reads}
         /\ \A o \in DOMAIN new : new[o] \in {1, 2, 4}
         /\ \A r \in reads : r[1] \in DOMAIN new /\ r[2] <= new[r[1]]
         /\ \A o \in DOMAIN old : o \in DOMAIN new /\ old[o] <= new[o]
<1>1. DOMAIN new = DOMAIN old \union {r[1] : r \in reads}
  BY DEF Widest
<1>2. ASSUME NEW o \in DOMAIN new
      PROVE  /\ new[o] \in {1, 2, 4}
             /\ \A r \in reads : r[1] = o => r[2] <= new[o]
             /\ o \in DOMAIN old => old[o] <= new[o]
  <2> DEFINE IsWidest(w) == /\ \/ << o, w >> \in reads
                               \/ o \in DOMAIN old /\ old[o] = w
                            /\ \A r \in reads : r[1] = o => r[2] <= w
                            /\ o \in DOMAIN old => old[o] <= w
  <2> DEFINE V == {r[2] : r \in reads} \union {old[p] : p \in DOMAIN old}
  <2> DEFINE W == {w \in {1, 2, 4} : << o, w >> \in reads \/ (o \in DOMAIN old /\ old[o] = w)}
  <2>1. W # {}
    <3>1. CASE o \in DOMAIN old
      BY <3>1
    <3>2. CASE o \notin DOMAIN old
      <4>1. PICK r \in reads : r[1] = o
        BY <1>1, <3>2
      <4>2. << o, r[2] >> \in reads /\ r[2] \in {1, 2, 4}
        BY <4>1
      <4> QED  BY <4>2
    <3> QED  BY <3>1, <3>2
  <2>2. \E w \in W : \A x \in W : x <= w
    <3>1. CASE 4 \in W
      BY <3>1
    <3>2. CASE 4 \notin W /\ 2 \in W
      BY <3>2
    <3>3. CASE 4 \notin W /\ 2 \notin W
      <4>1. \A x \in W : x = 1
        BY <3>3
      <4> HIDE DEF W
      <4> QED  BY <2>1, <4>1
    <3> QED  BY <3>1, <3>2, <3>3
  <2>3. PICK w \in W : \A x \in W : x <= w
    BY <2>2
  <2>4. \A r \in reads : r[1] = o => r[2] \in W
    OBVIOUS
  <2>5. o \in DOMAIN old => old[o] \in W
    OBVIOUS
  <2>6. IsWidest(w)
    BY <2>3, <2>4, <2>5
  <2>7. \A x : IsWidest(x) => x \in V /\ x \in {1, 2, 4}
    <3>1. ASSUME NEW x, IsWidest(x)  PROVE x \in V /\ x \in {1, 2, 4}
      <4>1. CASE << o, x >> \in reads
        BY <4>1
      <4>2. CASE o \in DOMAIN old /\ old[o] = x
        BY <4>2
      <4> QED  BY <3>1, <4>1, <4>2
    <3> QED  BY <3>1
  <2>8. new[o] = CHOOSE x \in V : IsWidest(x)
    BY <1>1 DEF Widest
  <2>9. IsWidest(new[o])
    <3> HIDE DEF IsWidest, V
    <3>1. w \in V
      BY <2>6, <2>7
    <3> QED  BY <2>6, <2>8, <3>1
  <2>10. new[o] \in {1, 2, 4}
    BY <2>7, <2>9
  <2> QED  BY <2>9, <2>10
<1>3. \A r \in reads : r[1] \in DOMAIN new
  BY <1>1
<1>4. \A r \in reads : r[2] <= new[r[1]]
  BY <1>2, <1>3
<1>5. \A o \in DOMAIN old : o \in DOMAIN new /\ old[o] <= new[o]
  BY <1>1, <1>2
<1> QED
  BY <1>1, <1>2, <1>3, <1>4, <1>5

-----------------------------------------------------------------------------
(* Types of what is read.                                                  *)

\* What is left of a number in 16 bits.
LEMMA WordRange == \A n \in Int : n % 65536 \in Word16
<1>1. \A m \in Nat \ {0} : \A n \in Int : n % m \in 0..(m - 1)
  OBVIOUS
<1> DEFINE m == 65536
<1>2. Word16 = 0..(m - 1) /\ m \in Nat \ {0}
  BY DEF Word16
<1> HIDE DEF m
<1>3. \A n \in Int : n % m \in Word16
  BY <1>1, <1>2
<1> QED
  BY <1>3 DEF m

\* The arguments of the call.
LEMMA RangeIsTyped ==
  ASSUME range \in Ranges
  PROVE  /\ start \in Int /\ end \in Int /\ size \in Nat
         /\ \A i \in Instructions[range] :
              /\ i.length \in Nat /\ i.length >= 1
              /\ \A o \in {i.operand1, i.operand2} :
                   /\ o.kind \in {"imm8", "imm16"} => o.value \in Nat
                   /\ o.kind \in {"imm8s", "rel16", "addr16"} => o.value \in Int
                   /\ o.kind = "addr16" => o.size \in {1, 2}
<1>1. range \in Int \X Int \X Nat
  BY RangesAssumption
<1> QED
  BY <1>1, InstructionsAssumption DEF start, end, size

\* The reads of an instruction, and a bound on their offsets.
LEMMA ReadsAreTyped ==
  ASSUME range \in Ranges, NEW i \in Instructions[range]
  PROVE  /\ \A r \in Reads(i) : /\ r = << r[1], r[2] >>
                                /\ r[1] \in Nat \ {0} /\ r[2] \in {1, 2, 4}
         /\ \E n \in Nat : \A r \in Reads(i) : r[1] <= n
         /\ \A a \in FrameAccesses(i) : a.value \in Int
         /\ Globals(i) \subseteq Word16
<1>1. \A o \in Memory(i) : /\ o \in {i.operand1, i.operand2}
                           /\ o.value \in Int /\ o.size \in {1, 2}
  BY RangeIsTyped DEF Memory
<1>2. \A a \in FrameAccesses(i) : a \in Memory(i)
  BY DEF FrameAccesses
<1>3. ASSUME NEW r \in Reads(i)
      PROVE  /\ r = << r[1], r[2] >> /\ r[1] \in Nat \ {0} /\ r[2] \in {1, 2, 4}
             /\ \E o \in Memory(i) : o.value = r[1]
  <2>1. PICK o \in FrameAccesses(i) : o.value > 0 /\ r = << o.value, Width(i, o) >>
    BY DEF Reads
  <2>2. o.value \in Nat \ {0} /\ o \in Memory(i)
    BY <1>1, <1>2, <2>1
  <2>3. Width(i, o) \in {1, 2, 4}
    BY <1>1, <1>2 DEF Width, FarPointerWidth
  <2> QED  BY <2>1, <2>2, <2>3
<1>4. \E n \in Nat : \A o \in Memory(i) : o.value <= n
  <2> DEFINE v(o) == IF o.value \in Nat THEN o.value ELSE 0
  <2>1. v(i.operand1) \in Nat /\ v(i.operand2) \in Nat
    OBVIOUS
  <2>2. \A o \in Memory(i) : o.value <= v(o)
    BY <1>1
  <2>3. \A o \in Memory(i) : v(o) <= v(i.operand1) + v(i.operand2)
    <3>1. ASSUME NEW o \in Memory(i)  PROVE v(o) = v(i.operand1) \/ v(o) = v(i.operand2)
      BY <1>1
    <3> HIDE DEF v
    <3> QED  BY <2>1, <3>1
  <2>4. \A o \in Memory(i) : o.value <= v(i.operand1) + v(i.operand2)
    <3>1. ASSUME NEW o \in Memory(i)  PROVE o.value \in Int /\ v(o) \in Nat
      BY <1>1
    <3> HIDE DEF v
    <3> QED  BY <2>1, <2>2, <2>3, <3>1
  <2>5. v(i.operand1) + v(i.operand2) \in Nat
    <3> HIDE DEF v
    <3> QED  BY <2>1
  <2> HIDE DEF v
  <2> QED  BY <2>4, <2>5
<1>5. \E n \in Nat : \A r \in Reads(i) : r[1] <= n
  BY <1>3, <1>4
<1>6. Globals(i) \subseteq Word16
  <2>2. ASSUME NEW g \in Globals(i)  PROVE g \in Word16
    <3>1. PICK o \in Memory(i) : g = o.value % 65536
      BY DEF Globals
    <3> QED  BY <1>1, <3>1, WordRange
  <2> QED  BY <2>2
<1> QED
  <2>1. \A a \in FrameAccesses(i) : a.value \in Int
    BY <1>1, <1>2
  <2>2. \A r \in Reads(i) : r = << r[1], r[2] >> /\ r[1] \in Nat \ {0} /\ r[2] \in {1, 2, 4}
    BY <1>3
  <2> QED  BY <1>5, <1>6, <2>1, <2>2

-----------------------------------------------------------------------------
(* The argument run and its slots.                                         *)

\* The reads so far, as the derivation uses them.
LEMMA PositiveIsTyped ==
  ASSUME TypeOK, ReadsAreBounded
  PROVE  /\ \A o \in DOMAIN positive : o \in Nat \ {0} /\ positive[o] \in Nat \ {0}
         /\ \E n \in Nat : \A o \in DOMAIN positive : o + positive[o] <= n
<1>1. PICK n \in Nat : DOMAIN positive \subseteq 1..n
  BY DEF ReadsAreBounded
<1>2. \A o \in DOMAIN positive : o \in Nat \ {0} /\ positive[o] \in {1, 2, 4} /\ o <= n
  BY <1>1 DEF TypeOK
<1>3. \A o \in DOMAIN positive : o + positive[o] <= n + 4
  BY <1>2
<1> QED
  BY <1>2, <1>3

\* The furthest read ends where read_end says.
LEMMA ReadEndIsFurthest ==
  ASSUME TypeOK, ReadsAreBounded
  PROVE  /\ base \in {4, 6} /\ read_end \in Nat
         /\ \A o \in DOMAIN positive : o + positive[o] <= read_end
         /\ read_end = base \/ \E o \in DOMAIN positive : read_end = o + positive[o]
<1>1. base \in {4, 6}
  BY DEF base, ARGUMENT_BASE_FAR, ARGUMENT_BASE_NEAR
<1>2. CASE DOMAIN positive = {}
  BY <1>1, <1>2 DEF read_end
<1>3. CASE DOMAIN positive # {}
  <2> DEFINE S == {o + positive[o] : o \in DOMAIN positive}
  <2>1. PICK n \in Nat : \A o \in DOMAIN positive : o + positive[o] <= n
    BY PositiveIsTyped
  <2>2. S \subseteq Nat /\ S # {} /\ \A x \in S : x <= n
    BY <1>3, <2>1, PositiveIsTyped
  <2>3. Greatest(S) \in S /\ \A x \in S : x <= Greatest(S)
    <3> HIDE DEF S
    <3> QED  BY <2>2, GreatestIsGreatest
  <2>4. read_end = Greatest(S)
    BY <1>3 DEF read_end
  <2>5. read_end \in S /\ \A x \in S : x <= read_end
    <3> HIDE DEF S
    <3> QED  BY <2>3, <2>4
  <2>6. read_end \in Nat
    <3> HIDE DEF S
    <3> QED  BY <2>2, <2>5
  <2> QED  BY <1>1, <2>5, <2>6
<1> QED
  BY <1>2, <1>3

\* The run reaches over everything popped and everything read.
LEMMA LimitIsFurthest ==
  ASSUME TypeOK, ReadsAreBounded, frame.pops # None
  PROVE  /\ frame.pops \in Nat /\ limit \in Nat /\ base + frame.pops <= limit /\ read_end <= limit
         /\ limit = base + frame.pops \/ limit = read_end
<1>1. frame.pops \in Nat /\ base \in Nat /\ read_end \in Nat
  BY ReadEndIsFurthest DEF TypeOK
<1> DEFINE S == {base + frame.pops, read_end}
<1>2. S \subseteq Nat /\ S # {} /\ \A x \in S : x <= base + frame.pops + read_end
  BY <1>1
<1>3. base + frame.pops + read_end \in Nat
  BY <1>1
<1>4. Greatest(S) \in S /\ \A x \in S : x <= Greatest(S)
  <2> HIDE DEF S
  <2> QED  BY <1>2, <1>3, GreatestIsGreatest
<1>5. limit = Greatest(S)
  BY DEF limit
<1>6. limit \in S /\ \A x \in S : x <= limit
  <2> HIDE DEF S
  <2> QED  BY <1>4, <1>5
<1> QED
  BY <1>1, <1>6

\* Where slots start.
LEMMA StartsAreTyped ==
  ASSUME TypeOK, ReadsAreBounded, frame.pops # None
  PROVE  /\ \A o \in starts : o \in Nat /\ base <= o /\ o < limit
         /\ base < limit => base \in starts
         /\ \A o \in DOMAIN positive : o >= base => o \in starts
<1>1. base \in Nat /\ limit \in Nat /\ read_end \in Nat /\ read_end <= limit
  BY ReadEndIsFurthest, LimitIsFurthest
<1>2. \A o \in DOMAIN positive : o \in Nat /\ o < limit
  BY <1>1, ReadEndIsFurthest, PositiveIsTyped
<1>3. \A o \in starts : o \in Nat /\ base <= o /\ o < limit
  BY <1>1, <1>2 DEF starts
<1>4. base < limit => base \in starts
  BY DEF starts
<1>5. \A o \in DOMAIN positive : o >= base => o \in starts
  BY <1>2 DEF starts
<1> QED
  BY <1>3, <1>4, <1>5

\* A slot runs to the next start, or to the end of the run.
LEMMA SlotRunsToTheNext ==
  ASSUME TypeOK, ReadsAreBounded, frame.pops # None, NEW o \in starts
  PROVE  /\ Slot(o) \in Slots
         /\ Slot(o).offset = o /\ Slot(o).width \in Nat \ {0} /\ o + Slot(o).width <= limit
         /\ Slot(o).accessed_width = IF o \in DOMAIN positive THEN positive[o] ELSE 0
         /\ \A s \in starts : s > o => o + Slot(o).width <= s
         /\ o + Slot(o).width = limit \/ \E s \in starts : s > o /\ s = o + Slot(o).width
<1> DEFINE S == {s \in starts \union {limit} : s > o}
<1>1. o \in Nat /\ o < limit /\ limit \in Nat
  BY StartsAreTyped, LimitIsFurthest
<1>2. S \subseteq Nat /\ limit \in S
  BY <1>1, StartsAreTyped
<1>3. Least(S) \in S /\ \A x \in S : Least(S) <= x
  <2> HIDE DEF S
  <2> QED  BY <1>2, LeastIsLeast
<1>4. PICK w : w = Least(S)
  OBVIOUS
<1>5. w \in S /\ \A x \in S : w <= x
  <2> HIDE DEF S
  <2> QED  BY <1>3, <1>4
<1>6. w \in Nat /\ w > o /\ w <= limit /\ (w = limit \/ w \in starts)
  BY <1>1, <1>2, <1>5
<1>7. \A s \in starts : s > o => w <= s
  BY <1>5
<1>8. Slot(o) = [offset |-> o, width |-> w - o,
                 accessed_width |-> IF o \in DOMAIN positive THEN positive[o] ELSE 0]
  BY <1>4 DEF Slot
<1>9. w - o \in Nat \ {0} /\ o + (w - o) = w
  BY <1>1, <1>6
<1>10. (IF o \in DOMAIN positive THEN positive[o] ELSE 0) \in Nat
  BY PositiveIsTyped
<1>11. Slot(o) \in Slots
  BY <1>1, <1>8, <1>9, <1>10 DEF Slots
<1>12. /\ Slot(o).offset = o /\ Slot(o).width = w - o
       /\ Slot(o).accessed_width = IF o \in DOMAIN positive THEN positive[o] ELSE 0
  BY <1>8
<1> HIDE DEF S
<1> QED
  BY <1>6, <1>7, <1>9, <1>11, <1>12

\* The run is fixed with the reads and the return.
LEMMA SlotsAreFixed ==
  ASSUME positive' = positive, frame'.pops = frame.pops,
         frame'.return_discipline = frame.return_discipline
  PROVE  /\ base' = base /\ read_end' = read_end /\ limit' = limit /\ starts' = starts
         /\ {Slot(o) : o \in starts}' = {Slot(o) : o \in starts}
<1>1. base' = base
  BY DEF base
<1>2. read_end' = read_end
  <2>1. CASE DOMAIN positive = {}
    BY <1>1, <2>1 DEF read_end
  <2>2. CASE DOMAIN positive # {}
    <3>1. read_end = Greatest({o + positive[o] : o \in DOMAIN positive})
      BY <2>2 DEF read_end
    <3>2. read_end' = Greatest({o + positive[o] : o \in DOMAIN positive})'
      BY <2>2 DEF read_end
    <3> QED  BY <3>1, <3>2, Zenon DEF Greatest
  <2> QED  BY <2>1, <2>2
<1>3. limit' = limit
  BY <1>1, <1>2, Zenon DEF limit, Greatest
<1>4. starts' = starts
  BY <1>1, <1>3, Zenon DEF starts
<1>5. {Slot(o) : o \in starts}' = {Slot(o) : o \in starts}
  BY <1>3, <1>4, Zenon DEF Slot, Least
<1> QED
  BY <1>1, <1>2, <1>3, <1>4, <1>5

-----------------------------------------------------------------------------
(* What a step does to the records.                                        *)

\* An instruction, field by field.
LEMMA FieldsOfARead ==
  ASSUME IInv, NEW i \in Instructions[range], ReadInstruction(i)
  PROVE  /\ range' = range /\ pc = "body" /\ pc' = "body"
         /\ frame' = [has_bp_frame |-> frame'.has_bp_frame, frame_size |-> frame'.frame_size,
                      return_discipline |-> frame'.return_discipline, pops |-> frame'.pops,
                      arguments |-> frame'.arguments, notes |-> frame'.notes]
         /\ frame'.has_bp_frame = (frame.has_bp_frame \/ Moves(i, "BP", "SP"))
         /\ frame'.frame_size = IF Allocates(i) THEN i.operand2.value ELSE frame.frame_size
         /\ frame'.return_discipline = IF ~Epilogue(i) THEN frame.return_discipline
                                       ELSE IF i.mnemonic = "RETF" THEN "far" ELSE "near"
         /\ frame'.pops = IF Epilogue(i) THEN PoppedBy(i) ELSE frame.pops
         /\ frame'.arguments = frame.arguments /\ frame'.notes = frame.notes
         /\ reading' = [negative |-> reading'.negative,
                        globals_touched |-> reading'.globals_touched,
                        near_calls |-> reading'.near_calls, far_calls |-> reading'.far_calls]
         /\ reading'.negative = reading.negative
              \union {o.value : o \in {a \in FrameAccesses(i) : a.value <= 0}}
         /\ reading'.globals_touched = reading.globals_touched \union Globals(i)
         /\ reading'.near_calls = reading.near_calls \o NearCalls(i)
<1> DEFINE B == frame.has_bp_frame \/ Moves(i, "BP", "SP")
<1> DEFINE Z == IF Allocates(i) THEN i.operand2.value ELSE frame.frame_size
<1> DEFINE D == IF ~Epilogue(i) THEN frame.return_discipline
                ELSE IF i.mnemonic = "RETF" THEN "far" ELSE "near"
<1> DEFINE P == IF Epilogue(i) THEN PoppedBy(i) ELSE frame.pops
<1>1. frame' = [frame EXCEPT !.has_bp_frame = B, !.frame_size = Z, !.return_discipline = D,
                             !.pops = P]
  BY Zenon DEF ReadInstruction
<1>2. frame = [has_bp_frame |-> frame.has_bp_frame, frame_size |-> frame.frame_size,
               return_discipline |-> frame.return_discipline, pops |-> frame.pops,
               arguments |-> frame.arguments, notes |-> frame.notes]
  BY DEF IInv, Shape
<1>3. frame' = [has_bp_frame |-> B, frame_size |-> Z, return_discipline |-> D, pops |-> P,
                arguments |-> frame.arguments, notes |-> frame.notes]
  <2> HIDE DEF B, Z, D, P
  <2> QED  BY <1>1, <1>2
<1>4. /\ frame'.has_bp_frame = B /\ frame'.frame_size = Z /\ frame'.return_discipline = D
      /\ frame'.pops = P /\ frame'.arguments = frame.arguments /\ frame'.notes = frame.notes
  <2> HIDE DEF B, Z, D, P
  <2> QED  BY <1>3
<1> DEFINE N == reading.negative \union {o.value : o \in {a \in FrameAccesses(i) : a.value <= 0}}
<1> DEFINE G == reading.globals_touched \union Globals(i)
<1> DEFINE C == reading.near_calls \o NearCalls(i)
<1> DEFINE F == reading.far_calls \o FarCalls(i)
<1>5. reading' = [reading EXCEPT !.negative = N, !.globals_touched = G, !.near_calls = C,
                                 !.far_calls = F]
  BY Zenon DEF ReadInstruction
<1>6. reading = [negative |-> reading.negative, globals_touched |-> reading.globals_touched,
                 near_calls |-> reading.near_calls, far_calls |-> reading.far_calls]
  BY DEF IInv, Shape
<1>7. reading' = [negative |-> N, globals_touched |-> G, near_calls |-> C, far_calls |-> F]
  <2> HIDE DEF N, G, C, F
  <2> QED  BY <1>5, <1>6
<1>8. reading'.negative = N /\ reading'.globals_touched = G /\ reading'.near_calls = C
      /\ reading'.far_calls = F
  <2> HIDE DEF N, G, C, F
  <2> QED  BY <1>7
<1>9. range' = range /\ pc = "body" /\ pc' = "body"
  BY Zenon DEF ReadInstruction
<1> HIDE DEF B, Z, D, P, N, G, C, F
<1>10. frame' = [has_bp_frame |-> frame'.has_bp_frame, frame_size |-> frame'.frame_size,
                 return_discipline |-> frame'.return_discipline, pops |-> frame'.pops,
                 arguments |-> frame'.arguments, notes |-> frame'.notes]
  BY <1>3, <1>4
<1>11. reading' = [negative |-> reading'.negative,
                   globals_touched |-> reading'.globals_touched,
                   near_calls |-> reading'.near_calls, far_calls |-> reading'.far_calls]
  BY <1>7, <1>8
<1> QED
  BY <1>4, <1>8, <1>9, <1>10, <1>11 DEF B, Z, D, P, N, G, C

\* The instruction is added behind those seen so far.
LEMMA SeenIsAppended ==
  ASSUME IInv, NEW i \in Instructions[range], ReadInstruction(i)
  PROVE  /\ Len(seen) \in Nat /\ Len(seen') = Len(seen) + 1
         /\ DOMAIN seen = 1..Len(seen) /\ DOMAIN seen' = 1..(Len(seen) + 1)
         /\ \A k \in 1..Len(seen) : seen'[k] = seen[k]
         /\ \A k \in 1..Len(seen) : seen[k].at \in Int /\ seen[k].is \in Instructions[range]
         /\ seen'[Len(seen) + 1].at = position /\ seen'[Len(seen) + 1].is = i
         /\ seen' \in Seq([at : Int, is : Instructions[range]])
<1> DEFINE Entry == [at : Int, is : Instructions[range]]
<1> DEFINE e == [at |-> position, is |-> i]
<1>1. seen \in Seq(Entry)
  BY DEF IInv, Shape
<1>2. e \in Entry /\ e.at = position /\ e.is = i
  BY DEF IInv, TypeOK
<1>3. seen' = Append(seen, e)
  BY Zenon DEF ReadInstruction
<1>4. \A k \in 1..Len(seen) : seen[k].at \in Int /\ seen[k].is \in Instructions[range]
  <2>1. \A k \in 1..Len(seen) : seen[k] \in Entry
    <3> HIDE DEF Entry
    <3> QED  BY <1>1
  <2> QED  BY <2>1
<1>5. /\ Len(seen) \in Nat /\ Len(seen') = Len(seen) + 1
      /\ DOMAIN seen = 1..Len(seen) /\ DOMAIN seen' = 1..(Len(seen) + 1)
      /\ \A k \in 1..Len(seen) : seen'[k] = seen[k]
      /\ seen'[Len(seen) + 1] = e /\ seen' \in Seq(Entry)
  <2> HIDE DEF Entry, e
  <2> QED  BY <1>1, <1>2, <1>3
<1> HIDE DEF e
<1> QED
  BY <1>2, <1>4, <1>5

\* The widths after an instruction: its reads and the earlier ones are covered.
LEMMA PositiveAfterARead ==
  ASSUME IInv, NEW i \in Instructions[range], ReadInstruction(i)
  PROVE  /\ \A o \in DOMAIN positive' : o > 0 /\ positive'[o] \in {1, 2, 4}
         /\ \A r \in Reads(i) : r[1] \in DOMAIN positive' /\ r[2] <= positive'[r[1]]
         /\ \A o \in DOMAIN positive : o \in DOMAIN positive' /\ positive[o] <= positive'[o]
         /\ ReadsAreBounded'
<1> USE DEF IInv
<1>1. range \in Ranges /\ \A o \in DOMAIN positive : o > 0 /\ positive[o] \in {1, 2, 4}
  BY DEF TypeOK
<1>2. \A r \in Reads(i) : r = << r[1], r[2] >> /\ r[1] \in Nat \ {0} /\ r[2] \in {1, 2, 4}
  BY <1>1, ReadsAreTyped
<1>3. positive' = Widest(positive, Reads(i))
  BY Zenon DEF ReadInstruction
<1>4. /\ DOMAIN positive' = DOMAIN positive \union {r[1] : r \in Reads(i)}
      /\ \A o \in DOMAIN positive' : positive'[o] \in {1, 2, 4}
      /\ \A r \in Reads(i) : r[1] \in DOMAIN positive' /\ r[2] <= positive'[r[1]]
      /\ \A o \in DOMAIN positive : o \in DOMAIN positive' /\ positive[o] <= positive'[o]
  BY <1>1, <1>2, <1>3, WidestIsWidest
<1>5. \A o \in DOMAIN positive' : o > 0
  BY <1>1, <1>2, <1>4
<1>6. PICK n \in Nat : DOMAIN positive \subseteq 1..n
  BY DEF ReadsAreBounded
<1>7. PICK m \in Nat : \A r \in Reads(i) : r[1] <= m
  BY <1>1, ReadsAreTyped
<1>8. n + m \in Nat /\ DOMAIN positive' \subseteq 1..(n + m)
  <2>1. \A o \in DOMAIN positive : o \in 1..(n + m)
    BY <1>6
  <2>2. \A r \in Reads(i) : r[1] \in 1..(n + m)
    BY <1>2, <1>6, <1>7
  <2> QED  BY <1>4, <2>1, <2>2
<1>9. ReadsAreBounded'
  BY <1>8 DEF ReadsAreBounded
<1> QED
  BY <1>4, <1>5, <1>9

-----------------------------------------------------------------------------
(* Types.                                                                  *)

\* A pass begins with nothing known.
LEMMA InitIsInvariant == Init => IInv
<1> SUFFICES ASSUME Init PROVE IInv
  OBVIOUS
<1>1. range \in Ranges /\ start \in Int /\ position = start
  BY RangeIsTyped DEF Init, start
<1>2. TypeOK
  BY <1>1 DEF Init, TypeOK
<1>3. Shape
  BY DEF Init, Shape
<1>4. Remembered
  BY <1>1 DEF Init, Remembered, NothingAllocated
<1>5. EvidenceIsInside
  BY DEF Init, EvidenceIsInside
<1>6. ConventionIsRemembered
  <2>1. Recognised = {}
    BY DEF Init, Recognised
  <2> QED  BY <2>1 DEF Init, ConventionIsRemembered
<1>7. ReadsAreCovered /\ ReadsAreBounded /\ Derived
  <2>1. DOMAIN positive = {} /\ DOMAIN seen = {} /\ pc = "entry"
    BY DEF Init
  <2> QED  BY <2>1 DEF ReadsAreCovered, ReadsAreBounded, Derived
<1> QED
  BY <1>2, <1>3, <1>4, <1>5, <1>6, <1>7 DEF IInv

\* An instruction keeps the types and the shape.
LEMMA TypesAfterARead ==
  ASSUME IInv, NEW i \in Instructions[range], ReadInstruction(i)
  PROVE  TypeOK' /\ Shape'
<1> USE DEF IInv
<1>1. range \in Ranges /\ range' = range /\ pc' = "body"
  BY FieldsOfARead DEF TypeOK
<1>2. position' \in Int
  <2>1. position' = position + i.length
    BY DEF ReadInstruction
  <2> QED  BY <1>1, <2>1, RangeIsTyped DEF TypeOK
<1>3. \A k \in DOMAIN seen' : seen'[k].at \in Int /\ seen'[k].is \in Instructions[range]
  <2>1. ASSUME NEW k \in 1..(Len(seen) + 1)
        PROVE  seen'[k].at \in Int /\ seen'[k].is \in Instructions[range]
    <3>1. CASE k = Len(seen) + 1
      BY <3>1, SeenIsAppended DEF TypeOK
    <3>2. CASE k # Len(seen) + 1
      <4>1. k \in 1..Len(seen)
        BY <3>2, SeenIsAppended
      <4> QED  BY <4>1, SeenIsAppended
    <3> QED  BY <3>1, <3>2
  <2> QED  BY <2>1, SeenIsAppended
<1>4. frame'.has_bp_frame \in BOOLEAN
  <2>1. frame'.has_bp_frame = (frame.has_bp_frame \/ Moves(i, "BP", "SP"))
    BY FieldsOfARead
  <2> QED  BY <2>1, Zenon
<1>5. frame'.frame_size \in Int \union {None}
  BY <1>1, FieldsOfARead, RangeIsTyped DEF TypeOK, Allocates
<1>6. frame'.return_discipline \in {"none", "near", "far"}
  BY FieldsOfARead DEF TypeOK
<1>7. PoppedBy(i) \in Nat /\ PoppedBy(i) # None
  BY <1>1, RangeIsTyped, NoneAssumption DEF PoppedBy
<1>8. frame'.pops \in Nat \union {None}
      /\ (frame'.pops = None <=> frame'.return_discipline = "none")
  BY <1>7, FieldsOfARead DEF TypeOK
<1>9. frame'.arguments \subseteq Slots
  BY FieldsOfARead DEF TypeOK
<1>10. \A o \in reading'.negative : o <= 0
  <2>1. reading'.negative = reading.negative
          \union {o.value : o \in {a \in FrameAccesses(i) : a.value <= 0}}
    BY FieldsOfARead
  <2> QED  BY <2>1 DEF TypeOK
<1>11. reading'.globals_touched \subseteq Word16
  BY <1>1, FieldsOfARead, ReadsAreTyped DEF TypeOK
<1>12. reading'.near_calls \in Seq(Word16)
  <2>1. NearCalls(i) \in Seq(Word16)
    <3>1. CASE i.mnemonic = "CALL" /\ i.operand1.kind = "rel16"
      <4>1. i.operand1.value \in Int /\ i.length \in Nat /\ position \in Int
        BY <1>1, <3>1, RangeIsTyped DEF TypeOK
      <4>2. NearTarget(i) \in Word16
        BY <4>1, WordRange DEF NearTarget
      <4> QED  BY <3>1, <4>2 DEF NearCalls
    <3>2. CASE ~ (i.mnemonic = "CALL" /\ i.operand1.kind = "rel16")
      BY <3>2 DEF NearCalls
    <3> QED  BY <3>1, <3>2
  <2>2. reading.near_calls \in Seq(Word16)
    BY DEF TypeOK
  <2>3. reading'.near_calls = reading.near_calls \o NearCalls(i)
    BY FieldsOfARead
  <2>4. \A s, t \in Seq(Word16) : s \o t \in Seq(Word16)
    OBVIOUS
  <2> QED  BY <2>1, <2>2, <2>3, <2>4
<1>13. \A o \in DOMAIN positive' : o > 0 /\ positive'[o] \in {1, 2, 4}
  BY PositiveAfterARead
<1>14. TypeOK'
  <2>2. pc' \in {"entry", "body", "slots", "done", "ValueError"}
    BY <1>1
  <2> QED  BY <1>1, <1>2, <1>3, <1>4, <1>5, <1>6, <1>8, <1>9, <1>10, <1>11, <1>12, <1>13, <2>2
           DEF TypeOK
<1>15. Shape'
  BY <1>1, FieldsOfARead, SeenIsAppended DEF Shape
<1> QED
  BY <1>14, <1>15

\* A step that reads no instruction: the call's other records stay, and the
\* slots and notes are the derived ones when the call is done.
LEMMA QuietStep ==
  ASSUME IInv, UNCHANGED << range, position, seen, positive, reading >>,
         NEW A, A \subseteq Slots, NEW N,
         frame' = [has_bp_frame |-> frame.has_bp_frame, frame_size |-> frame.frame_size,
                   return_discipline |-> frame.return_discipline, pops |-> frame.pops,
                   arguments |-> A, notes |-> N],
         pc' \in {"entry", "body", "slots", "done", "ValueError"},
         pc' = "entry" => pc = "entry",
         pc' \notin {"entry", "ValueError"} => position <= end,
         pc = "ValueError" => pc' = "ValueError",
         pc' = "done" /\ frame.pops # None =>
           A = {Slot(o) : o \in starts} /\ Notes(A) \subseteq N
  PROVE  IInv'
<1> USE DEF IInv
<1>1. /\ frame'.has_bp_frame = frame.has_bp_frame /\ frame'.frame_size = frame.frame_size
      /\ frame'.return_discipline = frame.return_discipline /\ frame'.pops = frame.pops
      /\ frame'.arguments = A /\ frame'.notes = N
  OBVIOUS
<1>2. TypeOK'
  BY <1>1 DEF TypeOK
<1>3. Shape'
  <2>1. frame' = [has_bp_frame |-> frame'.has_bp_frame, frame_size |-> frame'.frame_size,
                  return_discipline |-> frame'.return_discipline, pops |-> frame'.pops,
                  arguments |-> frame'.arguments, notes |-> frame'.notes]
    BY <1>1
  <2> QED  BY <2>1 DEF Shape
<1>4. Remembered'
  <2>1. NothingAllocated(Len(seen) + 1)' <=> NothingAllocated(Len(seen) + 1)
    BY Zenon DEF NothingAllocated
  <2>2. (\E j \in DOMAIN seen : Moves(seen[j].is, "BP", "SP"))'
          <=> \E j \in DOMAIN seen : Moves(seen[j].is, "BP", "SP")
    OBVIOUS
  <2>3. start' = start
    BY DEF start
  <2> QED  BY <1>1, <2>1, <2>2, <2>3 DEF Remembered
<1>5. EvidenceIsInside'
  <2>1. CASE pc \in {"entry", "ValueError"}
    <3>1. pc' # "ValueError" => seen = << >>
      BY <2>1 DEF Remembered
    <3>2. end' = end /\ start' = start
      BY DEF end, start
    <3> QED  BY <3>1, <3>2 DEF EvidenceIsInside
  <2>2. CASE pc \notin {"entry", "ValueError"}
    BY <2>2 DEF EvidenceIsInside, end, start
  <2> QED  BY <2>1, <2>2
<1>6. ConventionIsRemembered'
  <2>1. Recognised' = Recognised
    BY Zenon DEF Recognised, NothingAllocated
  <2>2. CASE Recognised = {}
    BY <1>1, <2>1, <2>2 DEF ConventionIsRemembered
  <2>3. CASE Recognised # {}
    <3> DEFINE last == seen[Greatest(Recognised)].is
    <3>1. /\ frame.return_discipline = IF last.mnemonic = "RETF" THEN "far" ELSE "near"
          /\ frame.pops = PoppedBy(last)
      BY <2>3 DEF ConventionIsRemembered
    <3>2. last' = last
      BY <2>1, Zenon
    <3> HIDE DEF last
    <3>3. /\ frame'.return_discipline = IF last'.mnemonic = "RETF" THEN "far" ELSE "near"
          /\ frame'.pops = PoppedBy(last')
      BY <1>1, <3>1, <3>2
    <3> QED  BY <2>1, <2>3, <3>3 DEF ConventionIsRemembered, last
  <2> QED  BY <2>2, <2>3
<1>7. ReadsAreCovered' /\ ReadsAreBounded'
  BY DEF ReadsAreCovered, ReadsAreBounded
<1>8. Derived'
  <2>1. SUFFICES ASSUME pc' = "done", frame'.pops # None
                 PROVE  /\ frame'.arguments = {Slot(o) : o \in starts}'
                        /\ Notes(frame.arguments)' \subseteq frame'.notes
    BY DEF Derived
  <2>2. /\ base' = base /\ read_end' = read_end /\ limit' = limit
        /\ {Slot(o) : o \in starts}' = {Slot(o) : o \in starts}
    BY <1>1, SlotsAreFixed
  <2>3. Notes(frame.arguments)' = Notes(A)
    BY <1>1, <2>2 DEF Notes
  <2> QED  BY <1>1, <2>1, <2>2, <2>3
<1> QED
  BY <1>2, <1>3, <1>4, <1>5, <1>6, <1>7, <1>8

-----------------------------------------------------------------------------
(* What an instruction adds to the memory of the pass.                     *)

\* The latest of the first n - 1 instructions of s to allocate allocated nothing.
Unallocated(s, n) ==
  \A j \in 1..(n - 1) :
    Allocates(s[j].is) /\ s[j].is.operand2.value # 0
    => \E l \in (j + 1)..(n - 1) : Allocates(s[l].is) /\ s[l].is.operand2.value = 0

\* Instruction k of s undoes the frame.
Undoes(s, k) ==
  /\ s[k].is.mnemonic \in {"RET", "RETF"}
  /\ k > 1 /\ PopsBP(s[k - 1].is)
  /\ \E j \in 1..(k - 1) : Moves(s[j].is, "BP", "SP")
  /\ \/ k > 2 /\ Moves(s[k - 2].is, "SP", "BP")
     \/ Unallocated(s, k)

\* Both are about what comes before: more instructions change neither.
LEMMA HistoryIsFixed ==
  ASSUME NEW n \in Nat, NEW s, NEW t, \A k \in 1..n : t[k] = s[k], NEW k \in 1..n
  PROVE  /\ Unallocated(t, k) <=> Unallocated(s, k)
         /\ Undoes(t, k) <=> Undoes(s, k)
<1>1. \A j \in 1..(k - 1) : j \in 1..n /\ t[j] = s[j]
  OBVIOUS
<1>2. \A j \in 1..(k - 1) : \A l \in (j + 1)..(k - 1) : l \in 1..n /\ t[l] = s[l]
  OBVIOUS
<1>3. Unallocated(t, k) <=> Unallocated(s, k)
  BY <1>1, <1>2 DEF Unallocated
<1>4. t[k] = s[k]
  OBVIOUS
<1>5. k > 1 => t[k - 1] = s[k - 1]
  BY <1>1
<1>6. k > 2 => t[k - 2] = s[k - 2]
  BY <1>1
<1>7. (\E j \in 1..(k - 1) : Moves(t[j].is, "BP", "SP"))
        <=> \E j \in 1..(k - 1) : Moves(s[j].is, "BP", "SP")
  BY <1>1
<1> QED
  BY <1>3, <1>4, <1>5, <1>6, <1>7 DEF Undoes

\* The definitions of the module in these terms.
LEMMA HistoryIsSeen ==
  /\ Recognised = {k \in DOMAIN seen : Undoes(seen, k)}
  /\ Recognised' = {k \in DOMAIN seen' : Undoes(seen', k)}
  /\ \A n : NothingAllocated(n) <=> Unallocated(seen, n)
  /\ NothingAllocated(Len(seen) + 1)' <=> Unallocated(seen', Len(seen') + 1)
<1>1. Recognised = {k \in DOMAIN seen : Undoes(seen, k)}
  BY Zenon DEF Recognised, Undoes, NothingAllocated, Unallocated
<1>2. Recognised' = {k \in DOMAIN seen' : Undoes(seen', k)}
  BY Zenon DEF Recognised, Undoes, NothingAllocated, Unallocated
<1>3. \A n : NothingAllocated(n) <=> Unallocated(seen, n)
  BY Zenon DEF NothingAllocated, Unallocated
<1>4. NothingAllocated(Len(seen) + 1)' <=> Unallocated(seen', Len(seen') + 1)
  BY Zenon DEF NothingAllocated, Unallocated
<1> QED
  BY <1>1, <1>2, <1>3, <1>4

\* An instruction that allocates settles whether something is allocated.
LEMMA AllocationAfterARead ==
  ASSUME NEW n \in Nat, NEW s, NEW t, \A k \in 1..n : t[k] = s[k]
  PROVE  Unallocated(t, n + 2) <=>
           IF Allocates(t[n + 1].is) THEN t[n + 1].is.operand2.value = 0
           ELSE Unallocated(s, n + 1)
<1>1. (n + 2) - 1 = n + 1 /\ (n + 1) - 1 = n /\ n + 1 \in 1..(n + 1)
  OBVIOUS
<1>2. CASE Allocates(t[n + 1].is) /\ t[n + 1].is.operand2.value = 0
  <2>1. ASSUME NEW j \in 1..(n + 1), t[j].is.operand2.value # 0
        PROVE  n + 1 \in (j + 1)..(n + 1)
    <3>1. j # n + 1
      BY <1>2, <2>1
    <3> QED  BY <3>1
  <2> QED  BY <1>1, <1>2, <2>1 DEF Unallocated
<1>3. CASE Allocates(t[n + 1].is) /\ t[n + 1].is.operand2.value # 0
  <2>1. (n + 2)..(n + 1) = {}
    OBVIOUS
  <2>2. (n + 1) + 1 = n + 2
    OBVIOUS
  <2> QED  BY <1>1, <1>3, <2>1, <2>2 DEF Unallocated
<1>4. CASE ~Allocates(t[n + 1].is)
  <2> DEFINE Later(u, j, m) == \E l \in (j + 1)..m : Allocates(u[l].is) /\ u[l].is.operand2.value = 0
  <2>1. ASSUME NEW j \in 1..n  PROVE Later(t, j, n + 1) <=> Later(s, j, n)
    <3>1. \A l \in (j + 1)..n : l \in (j + 1)..(n + 1) /\ l \in 1..n
      OBVIOUS
    <3>2. \A l \in (j + 1)..(n + 1) : l = n + 1 \/ l \in (j + 1)..n
      OBVIOUS
    <3> QED  BY <1>4, <3>1, <3>2
  <2>2. \A j \in 1..(n + 1) : j = n + 1 \/ j \in 1..n
    OBVIOUS
  <2>3. \A j \in 1..n : j \in 1..(n + 1)
    OBVIOUS
  <2>4. Unallocated(t, n + 2) <=>
          \A j \in 1..(n + 1) : Allocates(t[j].is) /\ t[j].is.operand2.value # 0
                                => Later(t, j, n + 1)
    BY <1>1 DEF Unallocated
  <2>5. Unallocated(s, n + 1) <=>
          \A j \in 1..n : Allocates(s[j].is) /\ s[j].is.operand2.value # 0
                          => Later(s, j, n)
    BY <1>1 DEF Unallocated
  <2> HIDE DEF Later
  <2> QED  BY <1>4, <2>1, <2>2, <2>3, <2>4, <2>5
<1> QED
  BY <1>2, <1>3, <1>4

\* The pass recognises the return exactly when the history undoes the frame.
LEMMA EpilogueUndoes ==
  ASSUME IInv, NEW i \in Instructions[range], ReadInstruction(i)
  PROVE  Epilogue(i) <=> Undoes(seen', Len(seen) + 1)
<1> USE DEF IInv
<1> DEFINE n == Len(seen)
<1>1. /\ n \in Nat /\ DOMAIN seen = 1..n /\ \A k \in 1..n : seen'[k] = seen[k]
      /\ seen'[n + 1].is = i
  BY SeenIsAppended
<1>2. frame.has_bp_frame <=> \E j \in 1..n : Moves(seen'[j].is, "BP", "SP")
  BY <1>1 DEF Remembered
<1>3. frame.frame_size \in {None, 0} <=> Unallocated(seen', n + 1)
  <2>1. NothingAllocated(n + 1) <=> Unallocated(seen, n + 1)
    BY HistoryIsSeen
  <2>2. frame.frame_size \in {None, 0} <=> NothingAllocated(n + 1)
    BY DEF Remembered
  <2>3. Unallocated(seen', n + 1) <=> Unallocated(seen, n + 1)
    <3>1. (n + 1) - 1 = n
      BY <1>1
    <3>2. \A j \in 1..n : \A l \in (j + 1)..n : l \in 1..n
      BY <1>1
    <3> HIDE DEF n
    <3> QED  BY <1>1, <3>1, <3>2 DEF Unallocated
  <2> QED  BY <2>1, <2>2, <2>3
<1>4. PopsBP(previous) <=> n + 1 > 1 /\ PopsBP(seen'[(n + 1) - 1].is)
  <2>1. CASE n > 0
    <3>1. n \in 1..n /\ (n + 1) - 1 = n /\ n + 1 > 1
      BY <1>1, <2>1
    <3>2. previous = seen[n].is
      BY <2>1 DEF previous
    <3> QED  BY <1>1, <3>1, <3>2
  <2>2. CASE ~(n > 0)
    <3>1. previous = NoInstruction /\ ~(n + 1 > 1)
      BY <1>1, <2>2 DEF previous
    <3> QED  BY <3>1 DEF PopsBP, NoInstruction
  <2> QED  BY <2>1, <2>2
<1>5. Moves(before, "SP", "BP") <=> n + 1 > 2 /\ Moves(seen'[(n + 1) - 2].is, "SP", "BP")
  <2>1. CASE n > 1
    <3>1. n - 1 \in 1..n /\ (n + 1) - 2 = n - 1 /\ n + 1 > 2
      BY <1>1, <2>1
    <3>2. before = seen[n - 1].is
      BY <2>1 DEF before
    <3>3. seen'[n - 1] = seen[n - 1]
      BY <1>1, <3>1
    <3> HIDE DEF n
    <3> QED  BY <3>1, <3>2, <3>3
  <2>2. CASE ~(n > 1)
    <3>1. before = NoInstruction /\ ~(n + 1 > 2)
      BY <1>1, <2>2 DEF before
    <3> QED  BY <3>1 DEF Moves, NoInstruction
  <2> QED  BY <2>1, <2>2
<1>6. (n + 1) - 1 = n
  BY <1>1
<1>7. Epilogue(i) <=> /\ i.mnemonic \in {"RET", "RETF"}
                      /\ frame.has_bp_frame /\ PopsBP(previous)
                      /\ frame.frame_size \in {None, 0} \/ Moves(before, "SP", "BP")
  BY DEF Epilogue, RestoresFrame
<1>8. Undoes(seen', n + 1) <=> /\ i.mnemonic \in {"RET", "RETF"}
                               /\ n + 1 > 1 /\ PopsBP(seen'[(n + 1) - 1].is)
                               /\ \E j \in 1..n : Moves(seen'[j].is, "BP", "SP")
                               /\ \/ n + 1 > 2 /\ Moves(seen'[(n + 1) - 2].is, "SP", "BP")
                                  \/ Unallocated(seen', n + 1)
  <2> HIDE DEF n
  <2> QED  BY <1>1, <1>6 DEF Undoes
<1> HIDE DEF n
<1> QED
  <2> HIDE DEF IInv
  <2>1. Epilogue(i) <=> Undoes(seen', n + 1)
    BY <1>2, <1>3, <1>4, <1>5, <1>7, <1>8
  <2> QED  BY <2>1 DEF n

\* The frame and the allocation remembered are those of the history.
LEMMA MemoryAfterARead ==
  ASSUME IInv, NEW i \in Instructions[range], ReadInstruction(i)
  PROVE  Remembered'
<1> USE DEF IInv
<1> DEFINE n == Len(seen)
<1>1. /\ n \in Nat /\ Len(seen') = n + 1 /\ DOMAIN seen = 1..n /\ DOMAIN seen' = 1..(n + 1)
      /\ \A k \in 1..n : seen'[k] = seen[k]
      /\ seen'[n + 1].is = i
  BY SeenIsAppended
<1>2. frame'.has_bp_frame <=> \E j \in DOMAIN seen' : Moves(seen'[j].is, "BP", "SP")
  <2>1. frame'.has_bp_frame = (frame.has_bp_frame \/ Moves(i, "BP", "SP"))
    BY FieldsOfARead
  <2>2. frame.has_bp_frame <=> \E j \in 1..n : Moves(seen[j].is, "BP", "SP")
    BY <1>1 DEF Remembered
  <2>3. \A j \in 1..(n + 1) : j \in 1..n \/ j = n + 1
    BY <1>1
  <2>4. n + 1 \in 1..(n + 1) /\ \A j \in 1..n : j \in 1..(n + 1)
    BY <1>1
  <2> HIDE DEF n
  <2>5. (\E j \in DOMAIN seen' : Moves(seen'[j].is, "BP", "SP"))
          <=> (\E j \in 1..n : Moves(seen[j].is, "BP", "SP")) \/ Moves(i, "BP", "SP")
    BY <1>1, <2>3, <2>4
  <2>6. frame'.has_bp_frame <=> frame.has_bp_frame \/ Moves(i, "BP", "SP")
    BY <2>1, Zenon
  <2> QED  BY <2>2, <2>5, <2>6
<1>3. frame'.frame_size \in {None, 0} <=> Unallocated(seen', n + 2)
  <2>1. frame.frame_size \in {None, 0} <=> Unallocated(seen, n + 1)
    BY HistoryIsSeen DEF Remembered
  <2>2. frame'.frame_size = IF Allocates(i) THEN i.operand2.value ELSE frame.frame_size
    BY FieldsOfARead
  <2>3. Allocates(i) => i.operand2.value \in Int /\ i.operand2.value # None
    BY RangeIsTyped, NoneAssumption DEF TypeOK, Allocates
  <2>4. Unallocated(seen', n + 2) <=>
          IF Allocates(i) THEN i.operand2.value = 0 ELSE Unallocated(seen, n + 1)
    <3> HIDE DEF n
    <3> QED  BY <1>1, AllocationAfterARead
  <2> HIDE DEF n
  <2> QED  BY <2>1, <2>2, <2>3, <2>4
<1>4. NothingAllocated(Len(seen) + 1)' <=> Unallocated(seen', n + 2)
  <2>1. Len(seen') + 1 = n + 2
    BY <1>1
  <2> QED  BY <2>1, HistoryIsSeen
<1>5. pc' = "body" /\ Len(seen') # 0
  BY <1>1, FieldsOfARead
<1> QED
  BY <1>2, <1>3, <1>4, <1>5 DEF Remembered

\* The convention is that of the new instruction, or the one before it.
LEMMA ConventionAfterARead ==
  ASSUME IInv, NEW i \in Instructions[range], ReadInstruction(i)
  PROVE  ConventionIsRemembered'
<1> USE DEF IInv
<1> DEFINE n == Len(seen)
<1>1. /\ n \in Nat /\ Len(seen') = n + 1 /\ DOMAIN seen = 1..n /\ DOMAIN seen' = 1..(n + 1)
      /\ \A k \in 1..n : seen'[k] = seen[k]
      /\ seen'[n + 1].is = i
  BY SeenIsAppended
<1>2. Epilogue(i) <=> Undoes(seen', n + 1)
  BY EpilogueUndoes
<1> HIDE DEF n
<1>3. \A k \in 1..n : Undoes(seen', k) <=> Undoes(seen, k)
  <2> DEFINE t == seen'
  <2>1. \A k \in 1..n : t[k] = seen[k]
    BY <1>1
  <2> HIDE DEF t
  <2>2. \A k \in 1..n : Undoes(t, k) <=> Undoes(seen, k)
    BY <1>1, <2>1, HistoryIsFixed
  <2> QED  BY <2>2 DEF t
<1>4. \A k \in 1..(n + 1) : k \in 1..n \/ k = n + 1
  BY <1>1
<1>5. n + 1 \in 1..(n + 1) /\ n + 1 \notin 1..n /\ \A k \in 1..n : k \in 1..(n + 1)
  BY <1>1
<1>6. Recognised = {k \in 1..n : Undoes(seen, k)}
  BY <1>1, HistoryIsSeen
<1>7. Recognised' = {k \in 1..(n + 1) : Undoes(seen', k)}
  BY <1>1, HistoryIsSeen
<1>8. CASE Epilogue(i)
  <2>1. n + 1 \in Recognised'
    BY <1>2, <1>5, <1>7, <1>8
  <2>2. Greatest(Recognised') = n + 1
    <3> DEFINE S == Recognised'
    <3>1. S \subseteq Nat /\ S # {} /\ (\A x \in S : x <= n + 1) /\ n + 1 \in Nat
      BY <1>1, <1>7, <2>1
    <3>2. n + 1 \in S
      BY <2>1
    <3>3. Greatest(S) \in S /\ \A y \in S : y <= Greatest(S)
      <4> HIDE DEF S
      <4> QED  BY <3>1, GreatestIsGreatest
    <3>4. Greatest(S) \in Nat /\ Greatest(S) <= n + 1 /\ n + 1 <= Greatest(S)
      <4> HIDE DEF S
      <4> QED  BY <3>1, <3>2, <3>3
    <3> HIDE DEF S
    <3>5. Greatest(S) = n + 1
      BY <1>1, <3>4
    <3> QED  BY <3>5 DEF S
  <2>3. i.mnemonic = "RETF" \/ i.mnemonic # "RETF"
    OBVIOUS
  <2>4. /\ frame'.return_discipline = IF i.mnemonic = "RETF" THEN "far" ELSE "near"
        /\ frame'.pops = PoppedBy(i)
    BY <1>8, FieldsOfARead
  <2>5. seen'[Greatest(Recognised')].is = i
    BY <1>1, <2>2
  <2> QED  BY <2>1, <2>4, <2>5 DEF ConventionIsRemembered
<1>9. CASE ~Epilogue(i)
  <2>1. Recognised' = Recognised
    BY <1>2, <1>3, <1>4, <1>5, <1>6, <1>7, <1>9
  <2>2. frame'.return_discipline = frame.return_discipline /\ frame'.pops = frame.pops
    BY <1>9, FieldsOfARead
  <2>3. CASE Recognised = {}
    BY <2>1, <2>2, <2>3 DEF ConventionIsRemembered
  <2>4. CASE Recognised # {}
    <3> DEFINE g == Greatest(Recognised)
    <3>1. g \in Recognised
      <4> DEFINE S == Recognised
      <4>1. S \subseteq Nat /\ S # {} /\ \A x \in S : x <= n
        BY <1>1, <1>6, <2>4
      <4> HIDE DEF S
      <4>2. Greatest(S) \in S
        BY <1>1, <4>1, GreatestIsGreatest
      <4> QED  BY <4>2 DEF S
    <3>2. g \in 1..n
      BY <1>6, <3>1
    <3>3. seen'[g] = seen[g]
      BY <1>1, <3>2
    <3>4. Greatest(Recognised') = g
      BY <2>1
    <3>5. /\ frame.return_discipline = IF seen[g].is.mnemonic = "RETF" THEN "far" ELSE "near"
          /\ frame.pops = PoppedBy(seen[g].is)
      BY <2>4 DEF ConventionIsRemembered
    <3> HIDE DEF g
    <3>6. seen'[Greatest(Recognised')] = seen[g]
      BY <3>3, <3>4
    <3> QED  BY <2>1, <2>2, <2>4, <3>5, <3>6 DEF ConventionIsRemembered
  <2> QED  BY <2>3, <2>4
<1> QED
  BY <1>8, <1>9

\* The instruction is inside the routine and follows the one before.
LEMMA EvidenceAfterARead ==
  ASSUME IInv, NEW i \in Instructions[range], ReadInstruction(i)
  PROVE  EvidenceIsInside'
<1> USE DEF IInv
<1> DEFINE n == Len(seen)
<1>1. /\ n \in Nat /\ Len(seen') = n + 1 /\ DOMAIN seen = 1..n /\ DOMAIN seen' = 1..(n + 1)
      /\ \A k \in 1..n : seen'[k] = seen[k]
      /\ seen'[n + 1].is = i /\ seen'[n + 1].at = position
  BY SeenIsAppended
<1>2. /\ position' = position + i.length /\ position' <= end
      /\ pc = "body" /\ start' = start /\ end' = end
  BY DEF ReadInstruction, Decodes, start, end
<1>3. /\ \A k \in 1..n :
           seen[k].at = IF k = 1 THEN start ELSE seen[k - 1].at + seen[k - 1].is.length
      /\ n > 0 => position = seen[n].at + seen[n].is.length
      /\ n = 0 => position = start
  <2>1. /\ \A k \in 1..n :
             seen[k].at = IF k = 1 THEN start ELSE seen[k - 1].at + seen[k - 1].is.length
        /\ n > 0 => position = seen[n].at + seen[n].is.length
    BY <1>1, <1>2 DEF EvidenceIsInside
  <2>2. n = 0 => position = start
    BY DEF Remembered
  <2> QED  BY <2>1, <2>2
<1> HIDE DEF n
<1>4. ASSUME NEW k \in 1..(n + 1)
      PROVE  seen'[k].at = IF k = 1 THEN start ELSE seen'[k - 1].at + seen'[k - 1].is.length
  <2>1. CASE k \in 1..n
    <3>1. k # 1 => k - 1 \in 1..n
      BY <1>1, <2>1
    <3> QED  BY <1>1, <1>3, <2>1, <3>1
  <2>2. CASE k = n + 1 /\ n > 0
    <3>1. k # 1 /\ k - 1 = n /\ n \in 1..n
      BY <1>1, <2>2
    <3> QED  BY <1>1, <1>3, <2>2, <3>1
  <2>3. CASE k = n + 1 /\ n = 0
    BY <1>1, <1>3, <2>3
  <2> QED  BY <1>1, <2>1, <2>2, <2>3
<1>5. position' = seen'[n + 1].at + seen'[n + 1].is.length
  BY <1>1, <1>2
<1>6. position' <= end'
  BY <1>2
<1> QED
  BY <1>1, <1>2, <1>4, <1>5, <1>6 DEF EvidenceIsInside

\* No read is forgotten.
LEMMA CoverAfterARead ==
  ASSUME IInv, NEW i \in Instructions[range], ReadInstruction(i)
  PROVE  ReadsAreCovered'
<1> USE DEF IInv
<1>1. ASSUME NEW k \in 1..(Len(seen) + 1), NEW r \in Reads(seen'[k].is)
      PROVE  r[1] \in DOMAIN positive' /\ r[2] <= positive'[r[1]]
  <2>1. CASE k = Len(seen) + 1
    BY <1>1, <2>1, SeenIsAppended, PositiveAfterARead
  <2>2. CASE k # Len(seen) + 1
    <3>1. k \in 1..Len(seen) /\ k \in DOMAIN seen /\ seen'[k] = seen[k]
      BY <2>2, SeenIsAppended
    <3>2. r \in Reads(seen[k].is)
      BY <1>1, <3>1
    <3>3. r[1] \in DOMAIN positive /\ r[2] <= positive[r[1]]
      BY <3>1, <3>2 DEF ReadsAreCovered
    <3>4. r[1] \in DOMAIN positive' /\ positive[r[1]] <= positive'[r[1]]
      BY <3>3, PositiveAfterARead
    <3>5. r[2] \in Nat /\ positive[r[1]] \in Nat /\ positive'[r[1]] \in Nat
      <4>1. seen[k].is \in Instructions[range]
        BY <3>1, SeenIsAppended
      <4>2. r[2] \in {1, 2, 4}
        BY <3>2, <4>1, ReadsAreTyped DEF TypeOK
      <4>3. positive[r[1]] \in {1, 2, 4} /\ positive'[r[1]] \in {1, 2, 4}
        BY <3>3, <3>4, PositiveAfterARead DEF TypeOK
      <4> QED  BY <4>2, <4>3
    <3> QED  BY <3>3, <3>4, <3>5
  <2> QED  BY <2>1, <2>2
<1>2. DOMAIN seen' = 1..(Len(seen) + 1)
  BY SeenIsAppended
<1> QED
  BY <1>1, <1>2 DEF ReadsAreCovered

-----------------------------------------------------------------------------
(* The invariant.                                                          *)

\* An instruction keeps the invariant.
LEMMA ReadStep ==
  ASSUME IInv, NEW i \in Instructions[range], ReadInstruction(i)
  PROVE  IInv'
<1>1. Derived'
  BY FieldsOfARead DEF Derived
<1> QED
  BY <1>1, TypesAfterARead, MemoryAfterARead, ConventionAfterARead, EvidenceAfterARead,
     CoverAfterARead, PositiveAfterARead DEF IInv

\* Every step keeps the invariant.
LEMMA IInvStep == IInv /\ [Next]_vars => IInv'
<1> SUFFICES ASSUME IInv, [Next]_vars PROVE IInv'
  OBVIOUS
<1>1. /\ frame = [has_bp_frame |-> frame.has_bp_frame, frame_size |-> frame.frame_size,
                  return_discipline |-> frame.return_discipline, pops |-> frame.pops,
                  arguments |-> frame.arguments, notes |-> frame.notes]
      /\ frame.arguments \subseteq Slots
      /\ TypeOK /\ ReadsAreBounded
  BY DEF IInv, Shape, TypeOK
<1>2. pc \in {"body", "slots", "done"} => position <= end
  BY DEF IInv, EvidenceIsInside
<1>3. CASE Enter
  <2>1. pc = "entry" /\ position = start
    BY <1>3 DEF Enter, IInv, Remembered
  <2>2. pc' \in {"body", "ValueError"} /\ (pc' # "ValueError" => start <= end)
    BY <1>3 DEF Enter
  <2>3. frame' = frame /\ UNCHANGED << range, position, seen, positive, reading >>
    BY <1>3 DEF Enter
  <2> QED  BY <1>1, <2>1, <2>2, <2>3, QuietStep
<1>4. ASSUME NEW i \in Instructions[range], ReadInstruction(i)  PROVE IInv'
  BY <1>4, ReadStep
<1>5. ASSUME NEW i \in Instructions[range], StopEarly(i)  PROVE IInv'
  <2> DEFINE N == frame.notes \union {<< "did not decode", position >>}
  <2>1. frame' = [frame EXCEPT !.notes = N]
    BY <1>5 DEF StopEarly
  <2>2. frame' = [has_bp_frame |-> frame.has_bp_frame, frame_size |-> frame.frame_size,
                  return_discipline |-> frame.return_discipline, pops |-> frame.pops,
                  arguments |-> frame.arguments, notes |-> N]
    <3> HIDE DEF N
    <3> QED  BY <1>1, <2>1
  <2>3. pc = "body" /\ pc' = "slots" /\ UNCHANGED << range, position, seen, positive, reading >>
    BY <1>5 DEF StopEarly
  <2> HIDE DEF N
  <2> QED  BY <1>1, <1>2, <2>2, <2>3, QuietStep
<1>6. CASE BodyEnds
  <2>1. /\ pc = "body" /\ pc' = "slots" /\ frame' = frame
        /\ UNCHANGED << range, position, seen, positive, reading >>
    BY <1>6 DEF BodyEnds
  <2> QED  BY <1>1, <1>2, <2>1, QuietStep
<1>7. CASE DeriveArguments
  <2> DEFINE S == {Slot(o) : o \in starts}
  <2> DEFINE A == IF frame.pops = None THEN frame.arguments ELSE S
  <2> DEFINE N == IF frame.pops = None THEN frame.notes ELSE frame.notes \union Notes(S)
  <2>1. /\ pc = "slots" /\ pc' = "done" /\ UNCHANGED << range, position, seen, positive, reading >>
    BY <1>7 DEF DeriveArguments
  <2>2. frame' = IF frame.pops = None THEN frame
                 ELSE [frame EXCEPT !.arguments = S, !.notes = @ \union Notes(S)]
    BY <1>7, Zenon DEF DeriveArguments
  <2>3. frame' = [has_bp_frame |-> frame.has_bp_frame, frame_size |-> frame.frame_size,
                  return_discipline |-> frame.return_discipline, pops |-> frame.pops,
                  arguments |-> A, notes |-> N]
    <3> HIDE DEF S
    <3> QED  BY <1>1, <2>2
  <2>4. A \subseteq Slots
    <3>1. ASSUME frame.pops # None  PROVE S \subseteq Slots
      BY <1>1, <3>1, SlotRunsToTheNext
    <3> HIDE DEF S
    <3> QED  BY <1>1, <3>1
  <2>5. frame.pops # None => A = S /\ Notes(A) \subseteq N
    <3> HIDE DEF S
    <3> QED  OBVIOUS
  <2> HIDE DEF A, N
  <2> QED  BY <1>2, <2>1, <2>3, <2>4, <2>5, QuietStep
<1>8. CASE UNCHANGED vars
  <2>1. /\ pc' = pc /\ frame' = frame
        /\ UNCHANGED << range, position, seen, positive, reading >>
    BY <1>8 DEF vars
  <2>2. pc \in {"entry", "body", "slots", "done", "ValueError"}
    BY <1>1 DEF TypeOK
  <2>3. pc = "done" /\ frame.pops # None =>
          frame.arguments = {Slot(o) : o \in starts} /\ Notes(frame.arguments) \subseteq frame.notes
    BY DEF IInv, Derived
  <2> QED  BY <1>1, <1>2, <2>1, <2>2, <2>3, QuietStep
<1> QED
  BY <1>3, <1>4, <1>5, <1>6, <1>7, <1>8 DEF Next

\* What every state of a pass has: the types of its locals, the memory of the
\* instructions behind it, and slots that are those of the reads.
THEOREM IInvHolds == Spec => []IInv
<1>1. Init => IInv
  BY InitIsInvariant
<1>2. IInv /\ [Next]_vars => IInv'
  BY IInvStep
<1> QED
  BY <1>1, <1>2, PTL DEF Spec

\* The locals of every pass have their types: no slot is empty and every near
\* target is an offset of the 16-bit instruction pointer.
THEOREM TypeCorrect == Spec => []TypeOK
<1>1. IInv => TypeOK
  BY DEF IInv
<1> QED
  BY <1>1, IInvHolds, PTL

\* analyse_frame reads [start, end) end to end and nothing outside it.
THEOREM EvidenceStaysInside == Spec => []EvidenceIsInside
<1>1. IInv => EvidenceIsInside
  BY DEF IInv
<1> QED
  BY <1>1, IInvHolds, PTL

\* Where no SUB SP,0 made the pass forget an allocation, the returns it takes
\* for an epilogue are the documented ones.
LEMMA RecognisedAreEpilogues ==
  ASSUME IInv, ~AllocationIsForgotten
  PROVE  Recognised = Epilogues
<1>1. DOMAIN seen \subseteq Nat
  BY DEF IInv, Shape
<1>2. ASSUME NEW k \in DOMAIN seen
      PROVE  NothingAllocated(k) <=> \A j \in 1..(k - 1) : ~AllocatesLocals(seen[j].is)
  <2>1. ASSUME NothingAllocated(k), NEW j \in 1..(k - 1), AllocatesLocals(seen[j].is)
        PROVE  FALSE
    <3>1. PICK l \in (j + 1)..(k - 1) : AllocatesNothing(seen[l].is)
      BY <2>1 DEF NothingAllocated, AllocatesLocals, AllocatesNothing
    <3>2. l \in DOMAIN seen /\ j \in 1..(l - 1)
      BY <1>1, <2>1, <3>1 DEF IInv, Shape
    <3> QED
      BY <2>1, <3>1, <3>2 DEF AllocationIsForgotten
  <2> QED
    BY <2>1 DEF NothingAllocated, AllocatesLocals
<1> QED
  BY <1>2 DEF Recognised, Epilogues

\* return_discipline and pops are those of the last return that undoes a frame
\* the routine made, whatever else the routine holds, but for an allocation
\* that the pass was made to forget.
THEOREM ConventionIsTheLastEpilogues == Spec => []ConventionIsObserved
<1>1. IInv => ConventionIsObserved
  BY RecognisedAreEpilogues DEF IInv, ConventionIsRemembered, ConventionIsObserved
<1> QED
  BY <1>1, IInvHolds, PTL

-----------------------------------------------------------------------------
(* The slots of a finished pass.                                           *)

\* A byte of the run has its slot: the one of the last start up to it.
LEMMA ByteHasItsSlot ==
  ASSUME IInv, frame.pops # None, NEW b \in Nat, base <= b, b < limit
  PROVE  \E o \in starts : b \in SlotBytes(Slot(o))
<1> USE DEF IInv
<1> DEFINE S == {o \in starts : o <= b}
<1>1. base \in Nat /\ limit \in Nat
  BY ReadEndIsFurthest, LimitIsFurthest
<1>2. base \in S
  BY <1>1, StartsAreTyped
<1>3. S \subseteq Nat /\ \A x \in S : x <= b
  BY StartsAreTyped
<1>4. Greatest(S) \in S /\ \A x \in S : x <= Greatest(S)
  <2> HIDE DEF S
  <2> QED  BY <1>2, <1>3, GreatestIsGreatest
<1>5. PICK o \in S : \A x \in S : x <= o
  <2> HIDE DEF S
  <2> QED  BY <1>4
<1>6. /\ Slot(o).offset = o /\ Slot(o).width \in Nat \ {0} /\ o \in Nat /\ o <= b
      /\ o + Slot(o).width = limit
         \/ \E s \in starts : s > o /\ s = o + Slot(o).width
  BY StartsAreTyped, SlotRunsToTheNext
<1>7. b < o + Slot(o).width
  <2>1. ASSUME NEW s \in starts, s > o, s = o + Slot(o).width  PROVE b < s
    <3>1. s \notin S
      <4>1. s \in Nat
        BY StartsAreTyped
      <4> HIDE DEF S
      <4> QED  BY <1>5, <1>6, <2>1, <4>1
    <3>2. s \in Nat /\ ~(s <= b)
      BY <3>1, StartsAreTyped
    <3> QED  BY <3>2
  <2> QED  BY <1>6, <2>1
<1>8. b \in SlotBytes(Slot(o))
  BY <1>6, <1>7 DEF SlotBytes
<1> QED
  BY <1>8

\* The bytes of a slot, as inequalities.
LEMMA BytesOfASlot ==
  ASSUME IInv, frame.pops # None, NEW o \in starts, NEW b \in SlotBytes(Slot(o))
  PROVE  /\ b \in Nat /\ o \in Nat /\ o <= b /\ b < o + Slot(o).width /\ b < limit /\ base <= b
<1> USE DEF IInv
<1>1. /\ Slot(o).offset = o /\ Slot(o).width \in Nat \ {0} /\ o \in Nat /\ base <= o
      /\ o + Slot(o).width <= limit /\ limit \in Nat /\ base \in Nat
  BY StartsAreTyped, SlotRunsToTheNext, LimitIsFurthest, ReadEndIsFurthest
<1>2. b \in o..(o + Slot(o).width - 1)
  BY <1>1 DEF SlotBytes
<1> HIDE DEF IInv
<1> QED
  BY <1>1, <1>2

\* No byte is in two slots.
LEMMA SlotsAreDisjoint ==
  ASSUME IInv, frame.pops # None, NEW o \in starts, NEW p \in starts,
         NEW b \in SlotBytes(Slot(o)), b \in SlotBytes(Slot(p))
  PROVE  o = p
<1>1. b \in Nat /\ o \in Nat /\ o <= b /\ b < o + Slot(o).width
  BY BytesOfASlot
<1>2. p \in Nat /\ p <= b /\ b < p + Slot(p).width
  BY BytesOfASlot
<1>3. /\ p > o => o + Slot(o).width <= p
      /\ o > p => p + Slot(p).width <= o
      /\ Slot(o).width \in Nat /\ Slot(p).width \in Nat
  BY SlotRunsToTheNext DEF IInv
<1> QED
  BY <1>1, <1>2, <1>3

\* The bytes read lie before the end of the run.
LEMMA BytesReadAreTyped ==
  ASSUME IInv, frame.pops # None
  PROVE  /\ \A r \in ReadBytes : r \in Nat /\ r < limit
         /\ \A o \in DOMAIN positive : o + positive[o] - 1 \in ReadBytes
<1> USE DEF IInv
<1>1. read_end \in Nat /\ limit \in Nat /\ read_end <= limit
  BY ReadEndIsFurthest, LimitIsFurthest
<1>2. ASSUME NEW o \in DOMAIN positive
      PROVE  /\ o \in Nat /\ positive[o] \in Nat \ {0} /\ o + positive[o] <= read_end
             /\ \A r \in o..(o + positive[o] - 1) : r \in Nat /\ r < limit
             /\ o + positive[o] - 1 \in o..(o + positive[o] - 1)
  <2>1. o \in Nat /\ positive[o] \in Nat \ {0} /\ o + positive[o] <= read_end
    BY PositiveIsTyped, ReadEndIsFurthest
  <2> HIDE DEF IInv
  <2> QED  BY <1>1, <2>1
<1> HIDE DEF IInv
<1> QED
  BY <1>2 DEF ReadBytes

\* The slots tile the run of what is popped and what is read.
LEMMA SlotsTile == IInv => SlotsTileTheRun
<1> SUFFICES ASSUME IInv, pc = "done", frame.pops # None
             PROVE  SlotsTileTheRun
  BY DEF SlotsTileTheRun
<1> DEFINE Run == base..(base + frame.pops - 1)
<1>1. frame.arguments = {Slot(o) : o \in starts}
  BY DEF IInv, Derived
<1>2. /\ base \in Nat /\ read_end \in Nat /\ frame.pops \in Nat /\ limit \in Nat
      /\ base + frame.pops <= limit /\ read_end <= limit
      /\ limit = base + frame.pops \/ limit = read_end
      /\ read_end = base \/ \E o \in DOMAIN positive : read_end = o + positive[o]
  BY ReadEndIsFurthest, LimitIsFurthest DEF IInv
<1>3. ASSUME NEW b \in Run \union {r \in ReadBytes : r >= base}
      PROVE  b \in Nat /\ base <= b /\ b < limit
  <2>1. CASE b \in Run
    BY <1>2, <2>1
  <2>2. CASE b \in ReadBytes /\ b >= base
    BY <1>2, <2>2, BytesReadAreTyped
  <2> QED  BY <1>3, <2>1, <2>2
<1>4. ASSUME NEW b \in Run \union {r \in ReadBytes : r >= base}
      PROVE  Cardinality({a \in frame.arguments : b \in SlotBytes(a)}) = 1
  <2>1. PICK o \in starts : b \in SlotBytes(Slot(o))
    BY <1>3, ByteHasItsSlot
  <2>2. {a \in frame.arguments : b \in SlotBytes(a)} = {Slot(o)}
    BY <1>1, <2>1, SlotsAreDisjoint
  <2> QED  BY <2>2, FS_Singleton
<1>5. ASSUME NEW a \in frame.arguments, NEW b \in SlotBytes(a)
      PROVE  base <= b /\ (b < base + frame.pops \/ \E r \in ReadBytes : b <= r)
  <2>1. PICK o \in starts : a = Slot(o)
    BY <1>1
  <2>2. b \in Nat /\ base <= b /\ b < limit
    BY <1>5, <2>1, BytesOfASlot
  <2>3. CASE limit = base + frame.pops
    BY <2>2, <2>3
  <2>4. CASE limit = read_end /\ read_end = base
    BY <1>2, <2>2, <2>4
  <2>5. ASSUME NEW p \in DOMAIN positive, limit = p + positive[p]
        PROVE  \E r \in ReadBytes : b <= r
    <3>1. p + positive[p] - 1 \in ReadBytes
      BY BytesReadAreTyped
    <3>2. p \in Nat /\ positive[p] \in Nat
      BY PositiveIsTyped DEF IInv
    <3>3. b <= p + positive[p] - 1
      BY <2>2, <2>5, <3>2
    <3> QED  BY <3>1, <3>3
  <2> QED  BY <1>2, <2>2, <2>3, <2>4, <2>5
<1> QED
  BY <1>4, <1>5 DEF SlotsTileTheRun

\* Every byte of the argument run is in exactly one slot, and no slot is outside
\* the run, whatever the routine reads and pops.
THEOREM SlotsTileTheArgumentRun == Spec => []SlotsTileTheRun
BY SlotsTile, IInvHolds, PTL

\* A read above the return address starts a slot, and is reported if it leaves it.
LEMMA ReadsHaveSlots == IInv => EveryReadHasItsSlot
<1> SUFFICES ASSUME IInv, pc = "done", frame.pops # None,
                    NEW k \in DOMAIN seen, NEW r \in Reads(seen[k].is), r[1] >= base
             PROVE  \E a \in frame.arguments :
                      /\ a.offset = r[1]
                      /\ r[2] > a.width => << "read wider", r[1] >> \in frame.notes
  BY DEF EveryReadHasItsSlot
<1> USE DEF IInv
<1>1. frame.arguments = {Slot(o) : o \in starts} /\ Notes(frame.arguments) \subseteq frame.notes
  BY DEF Derived
<1>2. r[1] \in DOMAIN positive /\ r[2] <= positive[r[1]]
  BY DEF ReadsAreCovered
<1>3. r[1] \in starts
  BY <1>2, StartsAreTyped
<1> DEFINE a == Slot(r[1])
<1>4. a \in frame.arguments
  BY <1>1, <1>3
<1>5. a.offset = r[1] /\ a.width \in Nat /\ a.accessed_width = positive[r[1]]
  BY <1>2, <1>3, SlotRunsToTheNext
<1>6. r[2] \in Nat /\ positive[r[1]] \in Nat
  <2>1. seen[k].is \in Instructions[range] /\ range \in Ranges
    BY DEF TypeOK
  <2>2. r[2] \in {1, 2, 4}
    BY <2>1, ReadsAreTyped
  <2> QED  BY <1>2, <2>2, PositiveIsTyped
<1> HIDE DEF a
<1>7. ASSUME r[2] > a.width  PROVE << "read wider", r[1] >> \in frame.notes
  <2>1. a.accessed_width > a.width
    BY <1>2, <1>5, <1>6, <1>7
  <2>2. << "read wider", a.offset >> \in Notes(frame.arguments)
    BY <1>4, <2>1 DEF Notes
  <2> QED  BY <1>1, <1>5, <2>2
<1> QED
  BY <1>4, <1>5, <1>7

\* No read of an argument is lost to a later one, and one that crosses into the
\* next slot is reported.
THEOREM EveryArgumentReadIsASlot == Spec => []EveryReadHasItsSlot
BY ReadsHaveSlots, IInvHolds, PTL
=============================================================================
