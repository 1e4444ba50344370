---------------------- MODULE ProcedureSelection_proofs ----------------------
(***************************************************************************)
(* Theorems about ProcedureSelection, for every unit, every code and every *)
(* code_offset: any number of blocks and entries, in any order.            *)
(***************************************************************************)
EXTENDS ProcedureSelection, WellFoundedInduction, TLAPS

-----------------------------------------------------------------------------
(* Operators.                                                              *)

\* A set of naturals that is not empty has a least one.
LEMMA LeastOfNaturals ==
  ASSUME NEW S, S \subseteq Nat, S # {}
  PROVE  \E x \in S : \A y \in S : x <= y
<1> DEFINE R == {ss \in Nat \X Nat : ss[1] < ss[2]}
<1>1. IsWellFoundedOn(R, Nat)
  BY NatLessThanWellFounded DEF OpToRel
<1>2. PICK t \in S : \A y \in S : ~ (<< y, t >> \in R)
  <2> HIDE DEF R
  <2> QED  BY <1>1, WFMin
<1>3. ASSUME NEW y \in S  PROVE t <= y
  <2>1. << y, t >> \in Nat \X Nat  OBVIOUS
  <2> QED  BY <1>2, <2>1
<1> QED
  BY <1>3

\* f starts with s and goes on by the elements of b.
IsRunningTotal(f, s, b) == f = [k \in Nat \ {0} |-> IF k = 1 THEN s ELSE f[k - 1] + b[k - 1]]

\* There is such a function.
LEMMA RunningTotals == \A s, b : \E f : IsRunningTotal(f, s, b)
<1> TAKE s, b
<1> DEFINE Upto(g, n) == g = [k \in 1..n |-> IF k = 1 THEN s ELSE g[k - 1] + b[k - 1]]
<1>1. \A n \in Nat \ {0} : \E g : Upto(g, n)
  <2> SUFFICES ASSUME \E n \in Nat \ {0} : ~ \E g : Upto(g, n)  PROVE FALSE
    OBVIOUS
  <2>1. PICK n \in Nat \ {0} : /\ ~ \E g : Upto(g, n)
                               /\ \A m \in Nat \ {0} : (~ \E g : Upto(g, m)) => n <= m
    <3> DEFINE S == {n \in Nat \ {0} : ~ \E g : Upto(g, n)}
    <3>1. S \subseteq Nat /\ S # {}
      OBVIOUS
    <3>2. PICK n \in S : \A m \in S : n <= m
      <4> HIDE DEF S
      <4> QED  BY <3>1, LeastOfNaturals
    <3> QED  BY <3>2
  <2>2. CASE n = 1
    <3> DEFINE g == [k \in 1..1 |-> s]
    <3>1. Upto(g, 1)  OBVIOUS
    <3> QED  BY <2>1, <2>2, <3>1
  <2>3. CASE n # 1
    <3>1. n - 1 \in Nat \ {0}  BY <2>3
    <3>2. PICK g : Upto(g, n - 1)  BY <2>1, <3>1
    <3> DEFINE h == [k \in 1..n |-> IF k = n THEN g[n - 1] + b[n - 1] ELSE g[k]]
    <3>3. ASSUME NEW k \in 1..n
          PROVE  h[k] = IF k = 1 THEN s ELSE h[k - 1] + b[k - 1]
      <4>1. CASE k = n
        <5>1. n - 1 \in 1..n /\ n - 1 # n  BY <3>1
        <5>2. h[n - 1] = g[n - 1]  BY <5>1
        <5> QED  BY <4>1, <5>2, <2>3
      <4>2. CASE k # n
        <5>1. k \in 1..(n - 1)  BY <4>2
        <5>2. g[k] = IF k = 1 THEN s ELSE g[k - 1] + b[k - 1]  BY <3>2, <5>1
        <5>3. k # 1 => k - 1 \in 1..n /\ k - 1 # n  BY <5>1
        <5> QED  BY <4>2, <5>2, <5>3
      <4> QED  BY <4>1, <4>2
    <3>4. Upto(h, n)  BY <3>3
    <3> QED  BY <2>1, <3>4
  <2> QED  BY <2>2, <2>3
<1> DEFINE G(n) == CHOOSE g : Upto(g, n)
<1>2. ASSUME NEW n \in Nat \ {0}  PROVE Upto(G(n), n)
  BY <1>1
<1>3. ASSUME NEW n \in Nat \ {0}, NEW k \in 1..n
      PROVE  G(n)[k] = IF k = 1 THEN s ELSE G(n)[k - 1] + b[k - 1]
  <2> HIDE DEF G
  <2> QED  BY <1>2
<1> DEFINE Agree(k) == \A m, n \in Nat \ {0} : k <= m /\ k <= n => G(m)[k] = G(n)[k]
<1>4. \A k \in Nat \ {0} : Agree(k)
  <2> SUFFICES ASSUME \E k \in Nat \ {0} : ~Agree(k)  PROVE FALSE
    OBVIOUS
  <2>1. PICK k \in Nat \ {0} : ~Agree(k) /\ \A j \in Nat \ {0} : ~Agree(j) => k <= j
    <3> DEFINE S == {j \in Nat \ {0} : ~Agree(j)}
    <3> HIDE DEF Agree
    <3>1. S \subseteq Nat /\ S # {}
      OBVIOUS
    <3>2. PICK k \in S : \A m \in S : k <= m
      <4> HIDE DEF S
      <4> QED  BY <3>1, LeastOfNaturals
    <3> QED  BY <3>2
  <2> HIDE DEF G
  <2>2. PICK m, n \in Nat \ {0} : k <= m /\ k <= n /\ G(m)[k] # G(n)[k]
    BY <2>1
  <2>3. k \in 1..m /\ k \in 1..n
    BY <2>2
  <2>4. k # 1
    BY <1>3, <2>2, <2>3
  <2>5. G(m)[k] = G(m)[k - 1] + b[k - 1] /\ G(n)[k] = G(n)[k - 1] + b[k - 1]
    BY <1>3, <2>3, <2>4
  <2>6. Agree(k - 1)
    BY <2>1, <2>4
  <2>7. G(m)[k - 1] = G(n)[k - 1]
    BY <2>2, <2>6
  <2> QED  BY <2>2, <2>5, <2>7
<1> DEFINE f == [k \in Nat \ {0} |-> G(k)[k]]
<1>5. ASSUME NEW k \in Nat \ {0}
      PROVE  f[k] = IF k = 1 THEN s ELSE f[k - 1] + b[k - 1]
  <2> HIDE DEF G
  <2>1. k \in 1..k  OBVIOUS
  <2>2. f[k] = IF k = 1 THEN s ELSE G(k)[k - 1] + b[k - 1]
    BY <1>3, <2>1
  <2>3. CASE k # 1
    <3>1. k - 1 \in Nat \ {0} /\ k - 1 <= k  BY <2>3
    <3>2. G(k)[k - 1] = G(k - 1)[k - 1]  BY <1>4, <3>1
    <3>3. f[k - 1] = G(k - 1)[k - 1]  BY <3>1
    <3> QED  BY <2>2, <2>3, <3>2, <3>3
  <2> QED  BY <2>2, <2>3
<1>6. f = [k \in Nat \ {0} |-> IF k = 1 THEN s ELSE f[k - 1] + b[k - 1]]
  <2> HIDE DEF G
  <2> QED  BY <1>5
<1> HIDE DEF f
<1> QED
  BY <1>6 DEF IsRunningTotal

\* Where a block starts.
LEMMA BlockStarts ==
  /\ BlockStart[1] = start
  /\ \A k \in Nat \ {0, 1} : BlockStart[k] = BlockStart[k - 1] + unit.blocks[k - 1]
<1>1. \E f : IsRunningTotal(f, start, unit.blocks)
  BY RunningTotals
<1>2. BlockStart = [k \in Nat \ {0} |-> IF k = 1 THEN start
                                        ELSE BlockStart[k - 1] + unit.blocks[k - 1]]
  BY <1>1, Zenon DEF BlockStart, IsRunningTotal
<1> QED
  BY <1>2

\* The layout is the unit's, whatever else a step changes.
LEMMA BlockStartIsFixed == unit' = unit => BlockStart' = BlockStart
BY Zenon DEF BlockStart, start

-----------------------------------------------------------------------------
(* The inductive invariant.                                                *)

\* The table of blocks is the unit's, in the order of the code, without overlap.
BlocksRead ==
  /\ \A k \in 1..Len(blocks) :
       blocks[k][2] = unit.blocks[k] /\ BlockStart[k] = start + blocks[k][1]
  /\ \A j, k \in 1..Len(blocks) : j < k => blocks[j][1] + blocks[j][2] <= blocks[k][1]
  /\ pc \in {"entries", "select", "decode", "done"} => Len(blocks) = Len(unit.blocks)

\* The entries read are the unit's, each inside a block of the table.
EntriesRead ==
  /\ \A e \in 1..read : unit.entries[e] = Unassigned \/ Owned(unit.entries[e])
  /\ offsets = {<< Selects(unit.entries[e]), unit.entries[e][2] >> :
                  e \in {f \in 1..read : unit.entries[f] # Unassigned}}
  /\ pc \in {"select", "decode", "done"} => read = Len(unit.entries)

\* What is decoded is the earliest eligible span, from its start to position.
Selected ==
  /\ pc \in {"header", "blocks", "entries", "select"} => position = 0
  /\ pc \in {"decode", "done"} =>
       /\ span \in Eligible /\ \A s \in Eligible : span[1] <= s[1]
       /\ position <= length
  /\ pc = "done" => routine = << span[1], span[1] + position >>

IInv == TypeOK /\ BlocksRead /\ EntriesRead /\ Selected

-----------------------------------------------------------------------------
(* What the invariant says of the tables and the spans.                    *)

\* The types of the argument.
LEMMA UnitIsTyped ==
  ASSUME TypeOK
  PROVE  /\ start \in Nat /\ unit.code_size \in Nat
         /\ unit.blocks \in Seq(Nat) /\ Len(unit.blocks) \in Nat
         /\ DOMAIN unit.blocks = 1..Len(unit.blocks)
         /\ \A k \in 1..Len(unit.blocks) : unit.blocks[k] \in Nat
         /\ unit.entries \in Seq(Nat \X Nat) /\ Len(unit.entries) \in Nat
         /\ DOMAIN unit.entries = 1..Len(unit.entries)
         /\ \A e \in 1..Len(unit.entries) : unit.entries[e] \in Nat \X Nat
<1>1. unit \in Units
  BY DEF TypeOK
<1>2. unit.symbols \in Nat /\ unit.code_size \in Nat
      /\ unit.blocks \in Seq(Nat) /\ unit.entries \in Seq(Nat \X Nat)
  BY <1>1, UnitsAssumption
<1>3. start \in Nat
  BY <1>2 DEF start
<1>4. \A e \in 1..Len(unit.entries) : unit.entries[e] \in Nat \X Nat
  BY <1>2
<1>5. \A k \in 1..Len(unit.blocks) : unit.blocks[k] \in Nat
  BY <1>2
<1> QED
  BY <1>2, <1>3, <1>4, <1>5

\* The types of the blocks and entries read.
LEMMA ReadIsTyped ==
  ASSUME TypeOK
  PROVE  /\ Len(blocks) \in Nat /\ Len(blocks) <= Len(unit.blocks)
         /\ \A k \in 1..Len(blocks) : /\ blocks[k][1] \in Nat /\ blocks[k][2] \in Nat
                                      /\ blocks[k] = << blocks[k][1], blocks[k][2] >>
         /\ read \in Nat /\ read <= Len(unit.entries)
         /\ \A o \in offsets : /\ o[1] \in 1..Len(blocks) /\ o[2] \in Nat
                               /\ o = << o[1], o[2] >>
         /\ running \in Nat
<1>1. blocks \in Seq(Nat \X Nat) /\ Len(blocks) \in Nat
  BY DEF TypeOK
<1>2. \A k \in 1..Len(blocks) : blocks[k] \in Nat \X Nat
  BY <1>1
<1>3. \A k \in 1..Len(blocks) : blocks[k][1] \in Nat /\ blocks[k][2] \in Nat
                                /\ blocks[k] = << blocks[k][1], blocks[k][2] >>
  BY <1>2
<1>4. running \in Nat
  <2>1. CASE blocks = << >>
    BY <2>1 DEF running
  <2>2. CASE blocks # << >>
    <3>1. Len(blocks) \in 1..Len(blocks)
      BY <2>2, <1>1
    <3> QED  BY <2>2, <3>1, <1>3 DEF running
  <2> QED  BY <2>1, <2>2
<1>5. \A o \in offsets : o \in (1..Len(blocks)) \X Nat
  BY DEF TypeOK
<1>6. \A o \in offsets : o[1] \in 1..Len(blocks) /\ o[2] \in Nat /\ o = << o[1], o[2] >>
  BY <1>5
<1>7. read \in Nat /\ read <= Len(unit.entries)
  BY UnitIsTyped DEF TypeOK
<1> QED
  BY <1>1, <1>3, <1>4, <1>6, <1>7 DEF TypeOK

\* An entry lies inside its block.
LEMMA OffsetsAreInside ==
  ASSUME TypeOK, EntriesRead, NEW o \in offsets
  PROVE  o[2] < blocks[o[1]][2]
<1>1. PICK e \in 1..read : /\ unit.entries[e] # Unassigned
                           /\ o = << Selects(unit.entries[e]), unit.entries[e][2] >>
  BY DEF EntriesRead
<1>2. Owned(unit.entries[e])
  BY <1>1 DEF EntriesRead
<1> QED
  BY <1>1, <1>2 DEF Owned

\* What ends the span of an entry: the next entry of the block or its end.
LEMMA LimitIsNext ==
  ASSUME TypeOK, EntriesRead, NEW o \in offsets
  PROVE  /\ Limit(o) \in Nat /\ o[2] < Limit(o) /\ Limit(o) <= blocks[o[1]][2]
         /\ \A p \in offsets : p[1] = o[1] /\ p[2] > o[2] => Limit(o) <= p[2]
         /\ \/ Limit(o) = blocks[o[1]][2]
            \/ \E p \in offsets : p[1] = o[1] /\ p[2] > o[2] /\ p[2] = Limit(o)
<1> DEFINE Q == {q \in offsets : q[1] = o[1] /\ q[2] > o[2]}
<1> DEFINE S == {p[2] : p \in Q} \union {blocks[o[1]][2]}
<1>1. o[1] \in 1..Len(blocks) /\ o[2] \in Nat /\ blocks[o[1]][2] \in Nat
  BY ReadIsTyped
<1>2. \A x \in S : x \in Nat /\ o[2] < x
  BY <1>1, ReadIsTyped, OffsetsAreInside
<1>3. PICK x \in S : \A y \in S : x <= y
  <2>1. S \subseteq Nat /\ S # {}
    BY <1>2
  <2> HIDE DEF S
  <2> QED  BY <2>1, LeastOfNaturals
<1>4. Limit(o) = Least(S)
  BY DEF Limit
<1>5. Least(S) \in S /\ \A y \in S : Least(S) <= y
  <2> HIDE DEF S
  <2> QED  BY <1>3 DEF Least
<1>6. Limit(o) \in S /\ \A y \in S : Limit(o) <= y
  <2> HIDE DEF S
  <2> QED  BY <1>4, <1>5
<1>7. \A p \in offsets : p[1] = o[1] /\ p[2] > o[2] => p[2] \in S
  OBVIOUS
<1>8. blocks[o[1]][2] \in S
  OBVIOUS
<1>9. \/ Limit(o) = blocks[o[1]][2]
      \/ \E p \in offsets : p[1] = o[1] /\ p[2] > o[2] /\ p[2] = Limit(o)
  BY <1>6
<1> HIDE DEF S
<1> QED
  BY <1>2, <1>6, <1>7, <1>8, <1>9

\* A span: its bounds, and that it is not empty.
LEMMA SpansAreTyped ==
  ASSUME TypeOK, EntriesRead, NEW s \in procedure_spans
  PROVE  /\ s[1] \in Nat /\ s[2] \in Nat /\ s[1] < s[2] /\ s = << s[1], s[2] >>
         /\ \E o \in offsets : /\ s = SpanOf(o)
                               /\ s[1] = start + blocks[o[1]][1] + o[2]
                               /\ s[2] = start + blocks[o[1]][1] + Limit(o)
<1>1. PICK o \in offsets : s = SpanOf(o)
  BY DEF procedure_spans
<1>2. o[1] \in 1..Len(blocks) /\ o[2] \in Nat /\ blocks[o[1]][1] \in Nat /\ start \in Nat
  BY ReadIsTyped, UnitIsTyped
<1>3. Limit(o) \in Nat /\ o[2] < Limit(o)
  BY LimitIsNext
<1>4. /\ s = << start + blocks[o[1]][1] + o[2], start + blocks[o[1]][1] + Limit(o) >>
      /\ s[1] = start + blocks[o[1]][1] + o[2]
      /\ s[2] = start + blocks[o[1]][1] + Limit(o)
  BY <1>1 DEF SpanOf
<1>5. s[1] \in Nat /\ s[2] \in Nat /\ s[1] < s[2]
  BY <1>2, <1>3, <1>4
<1> QED
  BY <1>1, <1>4, <1>5

\* The span selected is one of the eligible, and the earliest.
LEMMA EarliestIsEarliest ==
  ASSUME TypeOK, EntriesRead, Eligible # {}
  PROVE  Earliest \in Eligible /\ \A t \in Eligible : Earliest[1] <= t[1]
<1> DEFINE S == {s[1] : s \in Eligible}
<1>1. Eligible \subseteq procedure_spans
  BY DEF Eligible
<1>2. S \subseteq Nat /\ S # {}
  BY <1>1, SpansAreTyped
<1>3. PICK x \in S : \A y \in S : x <= y
  <2> HIDE DEF S
  <2> QED  BY <1>2, LeastOfNaturals
<1>4. PICK s \in Eligible : x = s[1]
  OBVIOUS
<1>5. \A t \in Eligible : s[1] <= t[1]
  BY <1>3, <1>4
<1> QED
  BY <1>5 DEF Earliest

-----------------------------------------------------------------------------
(* Every step keeps the invariant.                                         *)

\* A call begins with nothing read.
LEMMA InitIsInvariant == Init => IInv
<1> SUFFICES ASSUME Init PROVE IInv
  OBVIOUS
<1>1. TypeOK
  <2>1. unit.entries \in Seq(Nat \X Nat) /\ unit.blocks \in Seq(Nat)
    BY UnitsAssumption DEF Init
  <2>2. 0 \in 0..Len(unit.entries) /\ 0 <= Len(unit.blocks)
    BY <2>1
  <2>3. options.code_offset \in CodeOffsets \union {None}
    BY DEF Init
  <2> QED  BY <2>2, <2>3 DEF Init, TypeOK
<1>2. BlocksRead
  BY DEF Init, BlocksRead
<1>3. EntriesRead
  BY DEF Init, EntriesRead
<1>4. Selected
  BY DEF Init, Selected
<1> QED
  BY <1>1, <1>2, <1>3, <1>4 DEF IInv

\* The span that is decoded, and how far.
LEMMA DecodeIsTyped ==
  ASSUME IInv, pc \in {"decode", "done"}
  PROVE  /\ span \in procedure_spans /\ span[1] \in Nat /\ span[2] \in Nat /\ span[1] < span[2]
         /\ length \in Nat /\ length = span[2] - span[1] /\ position \in Nat
<1>1. span \in procedure_spans
  BY DEF IInv, Selected, Eligible
<1> QED
  BY <1>1, SpansAreTyped DEF IInv, TypeOK, length

\* A block record leaves the blocks before it alone.
LEMMA BlockIsAppended ==
  ASSUME IInv, ReadBlock
  PROVE  /\ Len(blocks') = Len(blocks) + 1 /\ blocks' \in Seq(Nat \X Nat)
         /\ \A k \in 1..Len(blocks) : blocks'[k] = blocks[k]
         /\ blocks'[Len(blocks')] = << running, unit.blocks[Len(blocks) + 1] >>
         /\ Len(blocks) + 1 <= Len(unit.blocks)
<1>1. blocks \in Seq(Nat \X Nat) /\ Len(blocks) \in Nat /\ running \in Nat
  BY ReadIsTyped DEF IInv, TypeOK
<1>2. Len(blocks) + 1 \in 1..Len(unit.blocks)
  BY <1>1, UnitIsTyped DEF IInv, ReadBlock
<1>3. unit.blocks[Len(blocks) + 1] \in Nat
  BY <1>2, UnitIsTyped DEF IInv
<1>4. NextBlock \in Nat \X Nat /\ NextBlock = << running, unit.blocks[Len(blocks) + 1] >>
  BY <1>1, <1>3 DEF NextBlock
<1>5. blocks' = Append(blocks, NextBlock)
  BY DEF ReadBlock
<1> HIDE DEF NextBlock
<1> QED
  BY <1>1, <1>2, <1>4, <1>5

\* Every step keeps the types of the locals.
LEMMA TypeStep == IInv /\ [Next]_vars => TypeOK'
<1> SUFFICES ASSUME IInv, [Next]_vars PROVE TypeOK'
  OBVIOUS
<1> USE DEF IInv
<1>1. ASSUME UNCHANGED << unit, options, blocks, read, offsets, span, position, routine >>,
             pc \notin {"done"}, pc' \in {"blocks", "entries", "select", "ValueError"}
      PROVE TypeOK'
  BY <1>1 DEF TypeOK
<1>2. CASE ReadHeader
  BY <1>1, <1>2 DEF ReadHeader
<1>3. CASE RefuseHeader
  BY <1>1, <1>3 DEF RefuseHeader, Fail
<1>4. CASE ReadBlock
  <2>1. offsets \subseteq (1..Len(blocks')) \X Nat
    BY <1>4, BlockIsAppended, ReadIsTyped DEF TypeOK
  <2> QED  BY <1>4, <2>1, BlockIsAppended DEF ReadBlock, TypeOK
<1>5. CASE BlocksEnd
  BY <1>1, <1>5 DEF BlocksEnd
<1>6. CASE BlocksDisagree
  BY <1>1, <1>6 DEF BlocksDisagree, Fail
<1>7. CASE ReadEntry
  <2> DEFINE entry == unit.entries[read + 1]
  <2>1. read + 1 \in 1..Len(unit.entries) /\ read' = read + 1
    BY <1>7, UnitIsTyped, ReadIsTyped DEF ReadEntry
  <2>2. entry \in Nat \X Nat /\ entry[1] \in Nat /\ entry[2] \in Nat
    BY <2>1, UnitIsTyped
  <2>3. Owned(entry) => << Selects(entry), entry[2] >> \in (1..Len(blocks)) \X Nat
    <3>1. Selects(entry) \in Nat /\ Selects(entry) >= 1
      <4>1. \A n \in Nat : n \div 8 + 1 \in Nat /\ n \div 8 + 1 >= 1
        OBVIOUS
      <4> QED  BY <2>2, <4>1 DEF Selects, RECORD_SIZE
    <3> QED  BY <2>2, <3>1, ReadIsTyped DEF Owned
  <2>4. offsets' \subseteq (1..Len(blocks)) \X Nat
    BY <1>7, <2>3 DEF ReadEntry, TypeOK
  <2>5. read' \in 0..Len(unit.entries)
    BY <2>1
  <2> QED  BY <1>7, <2>4, <2>5 DEF ReadEntry, TypeOK
<1>8. CASE RefuseEntry
  BY <1>1, <1>8 DEF RefuseEntry, Fail
<1>9. CASE EntriesEnd
  BY <1>1, <1>9 DEF EntriesEnd
<1>10. CASE SelectSpan
  <2>1. span' \in procedure_spans
    BY <1>10, EarliestIsEarliest DEF SelectSpan, Eligible
  <2>2. span'[1] \in Nat /\ span'[2] \in Nat /\ span'[1] < span'[2]
    BY <2>1, SpansAreTyped
  <2> QED  BY <1>10, <2>2 DEF SelectSpan, TypeOK
<1>11. CASE RefuseSelection
  BY <1>1, <1>11 DEF RefuseSelection, Fail
<1>12. ASSUME NEW i \in Instructions, DecodeInstruction(i)  PROVE TypeOK'
  <2>1. position' \in Nat
    BY <1>12, LengthAssumption DEF DecodeInstruction, TypeOK
  <2>2. span[1] \in Nat
    BY <1>12, DecodeIsTyped DEF DecodeInstruction
  <2>3. << span[1], span[1] + position' >> \in Int \X Int
    BY <2>1, <2>2
  <2>4. routine' # None <=> pc' = "done"
    BY <1>12, <2>3, NoneAssumption DEF DecodeInstruction, TypeOK
  <2> QED  BY <1>12, <2>1, <2>4 DEF DecodeInstruction, TypeOK
<1>13. ASSUME NEW i \in Instructions, CutOff(i)  PROVE TypeOK'
  BY <1>1, <1>13 DEF CutOff, Fail
<1>14. CASE NoReturn
  BY <1>1, <1>14 DEF NoReturn, Fail
<1>15. CASE UNCHANGED vars
  BY <1>15 DEF vars, TypeOK
<1> QED
  BY <1>2, <1>3, <1>4, <1>5, <1>6, <1>7, <1>8, <1>9, <1>10, <1>11, <1>12, <1>13, <1>14,
     <1>15 DEF Next

\* A step that reads no block, and enters "entries" only with the table complete.
LEMMA BlocksReadQuiet ==
  ASSUME BlocksRead, UNCHANGED << unit, blocks >>,
         pc' \in {"entries", "select", "decode", "done"} => Len(blocks) = Len(unit.blocks)
  PROVE  BlocksRead'
<1>1. BlockStart' = BlockStart /\ start' = start
  BY BlockStartIsFixed DEF start
<1> QED
  BY <1>1 DEF BlocksRead

\* Every step keeps what is known of the blocks.
LEMMA BlocksReadStep == IInv /\ [Next]_vars => BlocksRead'
<1> SUFFICES ASSUME IInv, [Next]_vars PROVE BlocksRead'
  OBVIOUS
<1> USE DEF IInv
<1>1. CASE ReadBlock
  <2> DEFINE n == Len(blocks)
  <2>1. BlockStart' = BlockStart /\ start' = start /\ unit' = unit /\ pc' = "blocks"
    BY <1>1, BlockStartIsFixed DEF ReadBlock, start
  <2>2. n \in Nat /\ \A k \in 1..n : blocks[k][1] \in Nat /\ blocks[k][2] \in Nat
    BY ReadIsTyped
  <2>3. /\ Len(blocks') = n + 1 /\ \A k \in 1..n : blocks'[k] = blocks[k]
        /\ blocks'[n + 1] = << running, unit.blocks[n + 1] >>
    BY <1>1, <2>2, BlockIsAppended
  <2>4. blocks'[n + 1][1] = running /\ blocks'[n + 1][2] = unit.blocks[n + 1]
    BY <2>3
  <2>5. running = IF n = 0 THEN 0 ELSE blocks[n][1] + blocks[n][2]
    <3>1. n = 0 <=> blocks = << >>
      BY DEF TypeOK
    <3> QED  BY <3>1 DEF running
  <2>6. BlockStart[n + 1] = start + running
    <3>1. CASE n = 0
      BY <3>1, <2>5, BlockStarts, UnitIsTyped
    <3>2. CASE n # 0
      <4>1. n \in 1..n /\ n + 1 \in Nat \ {0, 1} /\ (n + 1) - 1 = n
        BY <3>2, <2>2
      <4>2. BlockStart[n + 1] = BlockStart[n] + unit.blocks[n]
        BY <4>1, BlockStarts
      <4>3. BlockStart[n] = start + blocks[n][1] /\ unit.blocks[n] = blocks[n][2]
        BY <4>1 DEF BlocksRead
      <4>4. start \in Nat /\ blocks[n][1] \in Nat /\ blocks[n][2] \in Nat
        BY <4>1, <2>2, UnitIsTyped
      <4>5. running = blocks[n][1] + blocks[n][2]
        BY <2>5, <3>2
      <4> HIDE DEF n
      <4> QED  BY <4>2, <4>3, <4>4, <4>5
    <3> QED  BY <3>1, <3>2
  <2>7. ASSUME NEW k \in 1..(n + 1)
        PROVE  blocks'[k][2] = unit.blocks[k] /\ BlockStart[k] = start + blocks'[k][1]
    <3>1. CASE k = n + 1
      BY <3>1, <2>4, <2>6
    <3>2. CASE k # n + 1
      <4>1. k \in 1..n  BY <3>2, <2>2
      <4> QED  BY <4>1, <2>3 DEF BlocksRead
    <3> QED  BY <3>1, <3>2
  <2>8. ASSUME NEW j \in 1..(n + 1), NEW k \in 1..(n + 1), j < k
        PROVE  blocks'[j][1] + blocks'[j][2] <= blocks'[k][1]
    <3>1. j \in 1..n /\ n \in 1..n /\ n # 0  BY <2>8, <2>2
    <3>2. blocks'[j] = blocks[j] /\ blocks[j][1] \in Nat /\ blocks[j][2] \in Nat
      BY <3>1, <2>2, <2>3
    <3>3. CASE k = n + 1
      <4>1. blocks'[k][1] = blocks[n][1] + blocks[n][2]
        BY <3>1, <3>3, <2>4, <2>5
      <4>2. j = n \/ blocks[j][1] + blocks[j][2] <= blocks[n][1]
        BY <3>1 DEF BlocksRead
      <4>3. blocks[n][1] \in Nat /\ blocks[n][2] \in Nat
        BY <3>1, <2>2
      <4> HIDE DEF n
      <4> QED  BY <3>1, <3>2, <4>1, <4>2, <4>3
    <3>4. CASE k # n + 1
      <4>1. k \in 1..n  BY <3>4, <2>2
      <4> QED  BY <2>8, <3>1, <3>2, <4>1, <2>3 DEF BlocksRead
    <3> QED  BY <3>3, <3>4
  <2> HIDE DEF n
  <2> QED  BY <2>1, <2>3, <2>7, <2>8 DEF BlocksRead
<1>2. CASE ReadHeader
  BY <1>2, BlocksReadQuiet DEF ReadHeader
<1>3. CASE RefuseHeader
  BY <1>3, BlocksReadQuiet DEF RefuseHeader, Fail
<1>4. CASE BlocksEnd
  BY <1>4, BlocksReadQuiet DEF BlocksEnd
<1>5. CASE BlocksDisagree
  BY <1>5, BlocksReadQuiet DEF BlocksDisagree, Fail
<1>6. CASE ReadEntry
  BY <1>6, BlocksReadQuiet DEF ReadEntry, BlocksRead
<1>7. CASE RefuseEntry
  BY <1>7, BlocksReadQuiet DEF RefuseEntry, Fail
<1>8. CASE EntriesEnd
  BY <1>8, BlocksReadQuiet DEF EntriesEnd, BlocksRead
<1>9. CASE SelectSpan
  BY <1>9, BlocksReadQuiet DEF SelectSpan, BlocksRead
<1>10. CASE RefuseSelection
  BY <1>10, BlocksReadQuiet DEF RefuseSelection, Fail
<1>11. ASSUME NEW i \in Instructions, DecodeInstruction(i)  PROVE BlocksRead'
  BY <1>11, BlocksReadQuiet DEF DecodeInstruction, BlocksRead
<1>12. ASSUME NEW i \in Instructions, CutOff(i)  PROVE BlocksRead'
  BY <1>12, BlocksReadQuiet DEF CutOff, Fail
<1>13. CASE NoReturn
  BY <1>13, BlocksReadQuiet DEF NoReturn, Fail
<1>14. CASE UNCHANGED vars
  BY <1>14, BlocksReadQuiet DEF vars, BlocksRead
<1> QED
  BY <1>1, <1>2, <1>3, <1>4, <1>5, <1>6, <1>7, <1>8, <1>9, <1>10, <1>11, <1>12, <1>13, <1>14
  DEF Next

\* A step that reads no entry, and enters "select" only with all of them read.
LEMMA EntriesReadQuiet ==
  ASSUME EntriesRead, UNCHANGED << unit, blocks, read, offsets >>,
         pc' \in {"select", "decode", "done"} => read = Len(unit.entries)
  PROVE  EntriesRead'
BY DEF EntriesRead, Owned, Selects

\* Every step keeps what is known of the entries.
LEMMA EntriesReadStep == IInv /\ [Next]_vars => EntriesRead'
<1> SUFFICES ASSUME IInv, [Next]_vars PROVE EntriesRead'
  OBVIOUS
<1> USE DEF IInv
<1>1. CASE ReadBlock
  <2> DEFINE n == Len(blocks)
  <2>1. n \in Nat /\ Len(blocks') = n + 1 /\ \A k \in 1..n : blocks'[k] = blocks[k]
    BY <1>1, ReadIsTyped, BlockIsAppended
  <2>2. unit' = unit /\ read' = read /\ offsets' = offsets /\ pc' = "blocks"
    BY <1>1 DEF ReadBlock
  <2>3. read \in Nat /\ \A e \in 1..read : unit.entries[e][1] \in Nat
    <3>1. \A e \in 1..read : e \in 1..Len(unit.entries)
      BY ReadIsTyped, UnitIsTyped
    <3>2. \A e \in 1..Len(unit.entries) : unit.entries[e][1] \in Nat
      BY UnitIsTyped
    <3> QED  BY <3>1, <3>2, ReadIsTyped
  <2>4. ASSUME NEW e \in 1..read, unit.entries[e] # Unassigned
        PROVE  Owned(unit.entries[e])'
    <3>1. Owned(unit.entries[e])
      BY <2>4 DEF EntriesRead
    <3>2. Selects(unit.entries[e]) \in 1..n
      <4>1. \A m \in Nat : m \div 8 + 1 \in Nat /\ m \div 8 + 1 >= 1
        OBVIOUS
      <4>2. Selects(unit.entries[e]) \in Nat /\ Selects(unit.entries[e]) >= 1
        BY <2>3, <4>1 DEF Selects, RECORD_SIZE
      <4> QED  BY <2>1, <3>1, <4>2 DEF Owned
    <3>3. blocks'[Selects(unit.entries[e])] = blocks[Selects(unit.entries[e])]
      BY <2>1, <3>2
    <3>4. unit.entries[e]' = unit.entries[e]
          /\ Selects(unit.entries[e])' = Selects(unit.entries[e])
      BY <2>2 DEF Selects
    <3>5. Selects(unit.entries[e]) <= Len(blocks')
      BY <2>1, <3>2
    <3> QED  BY <2>2, <3>1, <3>3, <3>5 DEF Owned, Selects
  <2>5. offsets' = {<< Selects(unit.entries[e]), unit.entries[e][2] >> :
                      e \in {f \in 1..read : unit.entries[f] # Unassigned}}'
    <3>1. offsets = {<< Selects(unit.entries[e]), unit.entries[e][2] >> :
                      e \in {f \in 1..read : unit.entries[f] # Unassigned}}
      BY DEF EntriesRead
    <3> QED  BY <2>2, <3>1, Zenon DEF Selects
  <2>6. \A e \in 1..read : (unit.entries[e] = Unassigned \/ Owned(unit.entries[e]))'
    BY <2>2, <2>4
  <2> QED  BY <2>2, <2>5, <2>6 DEF EntriesRead
<1>2. CASE ReadEntry
  <2> DEFINE entry == unit.entries[read + 1]
  <2>1. read \in Nat /\ read' = read + 1 /\ unit' = unit /\ blocks' = blocks /\ pc' = "entries"
    BY <1>2, ReadIsTyped DEF ReadEntry
  <2>2. 1..read' = 1..read \union {read + 1} /\ read + 1 \notin 1..read
    BY <2>1
  <2>3. entry = Unassigned \/ Owned(entry)
    BY <1>2 DEF ReadEntry
  <2>4. \A e \in 1..read' : unit.entries[e] = Unassigned \/ Owned(unit.entries[e])
    BY <2>2, <2>3 DEF EntriesRead
  <2>5. offsets' = {<< Selects(unit.entries[e]), unit.entries[e][2] >> :
                      e \in {f \in 1..read' : unit.entries[f] # Unassigned}}
    <3>1. offsets' = IF entry = Unassigned THEN offsets
                     ELSE offsets \union {<< Selects(entry), entry[2] >>}
      BY <1>2 DEF ReadEntry
    <3>2. CASE entry = Unassigned
      <4>1. {f \in 1..read' : unit.entries[f] # Unassigned}
              = {f \in 1..read : unit.entries[f] # Unassigned}
        BY <3>2, <2>2
      <4> QED  BY <3>1, <3>2, <4>1 DEF EntriesRead
    <3>3. CASE entry # Unassigned
      <4>1. {f \in 1..read' : unit.entries[f] # Unassigned}
              = {f \in 1..read : unit.entries[f] # Unassigned} \union {read + 1}
        BY <3>3, <2>2
      <4> QED  BY <3>1, <3>3, <4>1 DEF EntriesRead
    <3> QED  BY <3>2, <3>3
  <2> QED  BY <2>1, <2>4, <2>5 DEF EntriesRead, Owned, Selects
<1>3. CASE ReadHeader
  BY <1>3, EntriesReadQuiet DEF ReadHeader
<1>4. CASE RefuseHeader
  BY <1>4, EntriesReadQuiet DEF RefuseHeader, Fail
<1>5. CASE BlocksEnd
  BY <1>5, EntriesReadQuiet DEF BlocksEnd
<1>6. CASE BlocksDisagree
  BY <1>6, EntriesReadQuiet DEF BlocksDisagree, Fail
<1>7. CASE RefuseEntry
  BY <1>7, EntriesReadQuiet DEF RefuseEntry, Fail
<1>8. CASE EntriesEnd
  BY <1>8, EntriesReadQuiet DEF EntriesEnd
<1>9. CASE SelectSpan
  BY <1>9, EntriesReadQuiet DEF SelectSpan, EntriesRead
<1>10. CASE RefuseSelection
  BY <1>10, EntriesReadQuiet DEF RefuseSelection, Fail
<1>11. ASSUME NEW i \in Instructions, DecodeInstruction(i)  PROVE EntriesRead'
  BY <1>11, EntriesReadQuiet DEF DecodeInstruction, EntriesRead
<1>12. ASSUME NEW i \in Instructions, CutOff(i)  PROVE EntriesRead'
  BY <1>12, EntriesReadQuiet DEF CutOff, Fail
<1>13. CASE NoReturn
  BY <1>13, EntriesReadQuiet DEF NoReturn, Fail
<1>14. CASE UNCHANGED vars
  BY <1>14, EntriesReadQuiet DEF vars, EntriesRead
<1> QED
  BY <1>1, <1>2, <1>3, <1>4, <1>5, <1>6, <1>7, <1>8, <1>9, <1>10, <1>11, <1>12, <1>13, <1>14
  DEF Next

\* The spans are fixed with the tables.
LEMMA SpansAreFixed ==
  ASSUME UNCHANGED << unit, options, blocks, offsets >>
  PROVE  procedure_spans' = procedure_spans /\ Eligible' = Eligible /\ start' = start
<1>1. start' = start
  BY DEF start
<1>2. procedure_spans' = procedure_spans
  BY <1>1, Zenon DEF procedure_spans, SpanOf, Limit, Least
<1> QED
  BY <1>1, <1>2, Zenon DEF Eligible

\* Every step keeps what is known of the span.
LEMMA SelectedStep == IInv /\ [Next]_vars => Selected'
<1> SUFFICES ASSUME IInv, [Next]_vars PROVE Selected'
  OBVIOUS
<1> USE DEF IInv
<1>1. ASSUME pc' \notin {"decode", "done"},
             pc' = "ValueError" \/ (pc \notin {"decode", "done", "ValueError"} /\ position' = position)
      PROVE  Selected'
  BY <1>1 DEF Selected, TypeOK
<1>2. CASE SelectSpan
  <2>1. Eligible' = Eligible /\ position' = position /\ span' = Earliest /\ pc' = "decode"
    BY <1>2, SpansAreFixed DEF SelectSpan
  <2>2. Earliest \in Eligible /\ \A s \in Eligible : Earliest[1] <= s[1]
    BY <1>2, EarliestIsEarliest DEF SelectSpan
  <2>3. position <= length'
    <3>1. Earliest[1] \in Nat /\ Earliest[2] \in Nat /\ Earliest[1] < Earliest[2]
      BY <2>2, SpansAreTyped DEF Eligible
    <3>2. length' = Earliest[2] - Earliest[1]
      BY <2>1 DEF length
    <3>3. position = 0
      BY <1>2 DEF SelectSpan, Selected
    <3> QED  BY <3>1, <3>2, <3>3
  <2> QED  BY <2>1, <2>2, <2>3 DEF Selected
<1>3. ASSUME NEW i \in Instructions, DecodeInstruction(i)  PROVE Selected'
  <2>1. Eligible' = Eligible /\ span' = span /\ length' = length
    BY <1>3, SpansAreFixed DEF DecodeInstruction, length
  <2>2. position' = position + i.length /\ position' <= length
    BY <1>3 DEF DecodeInstruction, Decodes
  <2>3. pc' = "done" => routine' = << span[1], span[1] + position' >>
    BY <1>3 DEF DecodeInstruction
  <2>4. span \in Eligible /\ \A s \in Eligible : span[1] <= s[1]
    BY <1>3 DEF DecodeInstruction, Selected
  <2>5. pc' \notin {"header", "blocks", "entries", "select"}
    BY <1>3 DEF DecodeInstruction
  <2> QED  BY <2>1, <2>2, <2>3, <2>4, <2>5 DEF Selected
<1>4. CASE ReadHeader
  BY <1>1, <1>4 DEF ReadHeader
<1>5. CASE RefuseHeader
  BY <1>1, <1>5 DEF RefuseHeader, Fail
<1>6. CASE ReadBlock
  BY <1>1, <1>6 DEF ReadBlock
<1>7. CASE BlocksEnd
  BY <1>1, <1>7 DEF BlocksEnd
<1>8. CASE BlocksDisagree
  BY <1>1, <1>8 DEF BlocksDisagree, Fail
<1>9. CASE ReadEntry
  BY <1>1, <1>9 DEF ReadEntry
<1>10. CASE RefuseEntry
  BY <1>1, <1>10 DEF RefuseEntry, Fail
<1>11. CASE EntriesEnd
  BY <1>1, <1>11 DEF EntriesEnd
<1>12. CASE RefuseSelection
  BY <1>1, <1>12 DEF RefuseSelection, Fail
<1>13. ASSUME NEW i \in Instructions, CutOff(i)  PROVE Selected'
  BY <1>1, <1>13 DEF CutOff, Fail
<1>14. CASE NoReturn
  BY <1>1, <1>14 DEF NoReturn, Fail
<1>15. CASE UNCHANGED vars
  BY <1>15, SpansAreFixed DEF vars, Selected, length
<1> QED
  BY <1>2, <1>3, <1>4, <1>5, <1>6, <1>7, <1>8, <1>9, <1>10, <1>11, <1>12, <1>13, <1>14, <1>15
  DEF Next

\* What every state of a call has: its locals' types, the tables it has read
\* and the span selected from them.
THEOREM IInvHolds == Spec => []IInv
<1>1. Init => IInv
  BY InitIsInvariant
<1>2. IInv /\ [Next]_vars => IInv'
  BY TypeStep, BlocksReadStep, EntriesReadStep, SelectedStep DEF IInv
<1> QED
  BY <1>1, <1>2, PTL DEF Spec

\* The locals of every call have their types; a span is never empty.
THEOREM TypeCorrect == Spec => []TypeOK
<1>1. IInv => TypeOK
  BY DEF IInv
<1> QED
  BY <1>1, IInvHolds, PTL

-----------------------------------------------------------------------------
(* Whose bytes a span has.                                                 *)

\* With the tables read, a declared entry of a block is one of the offsets.
LEMMA EntriesAreOffsets ==
  ASSUME IInv, pc \in {"select", "decode", "done"}, NEW k \in 1..Len(unit.blocks)
  PROVE  /\ \A x \in Entries(k) : \E o \in offsets : o[1] = k /\ x = BlockStart[k] + o[2]
         /\ \A o \in offsets : o[1] = k => BlockStart[k] + o[2] \in Entries(k)
<1> USE DEF IInv
<1>1. read = Len(unit.entries) /\ DOMAIN unit.entries = 1..read
  BY UnitIsTyped DEF EntriesRead
<1>2. offsets = {<< Selects(unit.entries[e]), unit.entries[e][2] >> :
                   e \in {f \in 1..read : unit.entries[f] # Unassigned}}
  BY DEF EntriesRead
<1>3. ASSUME NEW x \in Entries(k)
      PROVE  \E o \in offsets : o[1] = k /\ x = BlockStart[k] + o[2]
  <2>1. PICK e \in 1..read : /\ unit.entries[e] # Unassigned
                             /\ unit.entries[e][1] = (k - 1) * RECORD_SIZE
                             /\ x = BlockStart[k] + unit.entries[e][2]
    BY <1>1, <1>3 DEF Entries
  <2>2. Selects(unit.entries[e]) = k
    <3>1. k \in Nat /\ ((k - 1) * 8) \div 8 + 1 = k
      BY UnitIsTyped
    <3> QED  BY <2>1, <3>1 DEF Selects, RECORD_SIZE
  <2>3. << Selects(unit.entries[e]), unit.entries[e][2] >> \in offsets
    BY <1>2, <2>1
  <2> QED  BY <2>1, <2>2, <2>3
<1>4. ASSUME NEW o \in offsets, o[1] = k
      PROVE  BlockStart[k] + o[2] \in Entries(k)
  <2>1. PICK e \in 1..read : /\ unit.entries[e] # Unassigned
                             /\ o = << Selects(unit.entries[e]), unit.entries[e][2] >>
    BY <1>2, <1>4
  <2>2. Owned(unit.entries[e]) /\ unit.entries[e][1] \in Nat
    BY <1>1, <2>1, UnitIsTyped DEF EntriesRead
  <2>3. unit.entries[e][1] = (k - 1) * RECORD_SIZE
    <3>1. \A n \in Nat : n % 8 = 0 => n = ((n \div 8 + 1) - 1) * 8
      OBVIOUS
    <3>2. unit.entries[e][1] % 8 = 0 /\ unit.entries[e][1] \div 8 + 1 = k
      BY <1>4, <2>1, <2>2 DEF Owned, Selects, RECORD_SIZE
    <3> QED  BY <2>2, <3>1, <3>2 DEF RECORD_SIZE
  <2> QED  BY <1>1, <2>1, <2>3 DEF Entries
<1> QED
  BY <1>3, <1>4

\* Where the blocks of a complete table lie.
LEMMA BlocksAreLaidOut ==
  ASSUME IInv, pc \in {"select", "decode", "done"}
  PROVE  /\ Len(blocks) = Len(unit.blocks) /\ DOMAIN unit.blocks = 1..Len(blocks)
         /\ \A k \in 1..Len(blocks) :
              /\ BlockStart[k] \in Nat /\ BlockStart[k] = start + blocks[k][1]
              /\ unit.blocks[k] \in Nat /\ unit.blocks[k] = blocks[k][2]
         /\ \A j, k \in 1..Len(blocks) :
              j < k => BlockStart[j] + unit.blocks[j] <= BlockStart[k]
<1> USE DEF IInv
<1>1. Len(blocks) = Len(unit.blocks) /\ DOMAIN unit.blocks = 1..Len(blocks)
  BY UnitIsTyped DEF BlocksRead
<1>2. ASSUME NEW k \in 1..Len(blocks)
      PROVE  /\ BlockStart[k] \in Nat /\ BlockStart[k] = start + blocks[k][1]
             /\ unit.blocks[k] \in Nat /\ unit.blocks[k] = blocks[k][2]
             /\ start \in Nat /\ blocks[k][1] \in Nat
  BY <1>1, UnitIsTyped, ReadIsTyped DEF BlocksRead
<1>3. ASSUME NEW j \in 1..Len(blocks), NEW k \in 1..Len(blocks), j < k
      PROVE  BlockStart[j] + unit.blocks[j] <= BlockStart[k]
  <2>1. blocks[j][1] + blocks[j][2] <= blocks[k][1]
    BY <1>3 DEF BlocksRead
  <2>2. /\ BlockStart[j] = start + blocks[j][1] /\ unit.blocks[j] = blocks[j][2]
        /\ start \in Nat /\ blocks[j][1] \in Nat /\ unit.blocks[j] \in Nat
    BY <1>2
  <2>3. BlockStart[k] = start + blocks[k][1] /\ blocks[k][1] \in Nat
    BY <1>2
  <2> QED  BY <2>1, <2>2, <2>3
<1> QED
  BY <1>1, <1>2, <1>3

\* The bytes of a block, as inequalities.
LEMMA BytesOfABlock ==
  ASSUME NEW k, BlockStart[k] \in Nat, unit.blocks[k] \in Nat, NEW b
  PROVE  b \in BlockBytes(k) <=> /\ b \in Nat /\ BlockStart[k] <= b
                                /\ b < BlockStart[k] + unit.blocks[k]
<1>1. \A s, n \in Nat : b \in s..(s + n - 1) <=> b \in Nat /\ s <= b /\ b < s + n
  OBVIOUS
<1> QED
  BY <1>1 DEF BlockBytes

\* A position in two blocks is in one.
LEMMA BlocksAreDisjoint ==
  ASSUME IInv, pc \in {"select", "decode", "done"}, NEW j \in 1..Len(blocks),
         NEW k \in 1..Len(blocks), NEW b \in BlockBytes(j), b \in BlockBytes(k)
  PROVE  j = k
<1>1. /\ BlockStart[j] \in Nat /\ unit.blocks[j] \in Nat /\ BlockStart[k] \in Nat
      /\ unit.blocks[k] \in Nat /\ Len(blocks) \in Nat
  BY BlocksAreLaidOut, ReadIsTyped DEF IInv
<1>2. b \in Nat /\ BlockStart[j] <= b /\ b < BlockStart[j] + unit.blocks[j]
      /\ BlockStart[k] <= b /\ b < BlockStart[k] + unit.blocks[k]
  BY <1>1, BytesOfABlock
<1>3. j < k => BlockStart[j] + unit.blocks[j] <= BlockStart[k]
  BY BlocksAreLaidOut
<1>4. k < j => BlockStart[k] + unit.blocks[k] <= BlockStart[j]
  BY BlocksAreLaidOut
<1>5. j \in Int /\ k \in Int
  BY <1>1
<1> QED
  BY <1>1, <1>2, <1>3, <1>4, <1>5

\* A span is inside the block of its entry, and no entry of it is inside the span.
LEMMA SpanIsItsEntrys ==
  ASSUME IInv, pc \in {"select", "decode", "done"}, NEW o \in offsets, NEW s, s = SpanOf(o)
  PROVE  /\ o[1] \in 1..Len(blocks) /\ o[2] \in Nat /\ BlockStart[o[1]] \in Nat
         /\ unit.blocks[o[1]] \in Nat /\ Limit(o) \in Nat
         /\ s[1] = BlockStart[o[1]] + o[2] /\ s[2] = BlockStart[o[1]] + Limit(o)
         /\ s[1] \in Nat /\ s[2] \in Nat /\ s[1] < s[2]
         /\ BlockStart[o[1]] <= s[1] /\ s[2] <= BlockStart[o[1]] + unit.blocks[o[1]]
<1> USE DEF IInv
<1>1. o[1] \in 1..Len(blocks) /\ o[2] \in Nat
  BY ReadIsTyped
<1>2. /\ BlockStart[o[1]] \in Nat /\ BlockStart[o[1]] = start + blocks[o[1]][1]
      /\ unit.blocks[o[1]] \in Nat /\ unit.blocks[o[1]] = blocks[o[1]][2]
  BY <1>1, BlocksAreLaidOut
<1>3. Limit(o) \in Nat /\ o[2] < Limit(o) /\ Limit(o) <= unit.blocks[o[1]]
  BY <1>2, LimitIsNext
<1>4. s[1] = BlockStart[o[1]] + o[2] /\ s[2] = BlockStart[o[1]] + Limit(o)
  BY <1>2 DEF SpanOf
<1> QED
  BY <1>1, <1>2, <1>3, <1>4

\* Every byte of a block from its first declared entry on is owned by exactly
\* one span, the one of the nearest entry before it; no other byte by any.
LEMMA OwnersAreNearest == IInv => SpansOwnTheirBlocks
<1> SUFFICES ASSUME IInv, pc \in {"select", "decode", "done"},
                    NEW k \in DOMAIN unit.blocks, NEW b \in BlockBytes(k)
             PROVE  {s[1] : s \in {t \in procedure_spans : t[1] <= b /\ b < t[2]}}
                      = {e \in {x \in Entries(k) : x <= b} :
                           \A f \in {x \in Entries(k) : x <= b} : f <= e}
  BY DEF SpansOwnTheirBlocks
<1> DEFINE before == {x \in Entries(k) : x <= b}
<1>1. k \in 1..Len(blocks) /\ k \in 1..Len(unit.blocks)
  BY BlocksAreLaidOut
<1>2. /\ BlockStart[k] \in Nat /\ unit.blocks[k] \in Nat
      /\ b \in Nat /\ BlockStart[k] <= b /\ b < BlockStart[k] + unit.blocks[k]
  BY <1>1, BlocksAreLaidOut DEF BlockBytes
<1>3. ASSUME NEW s \in procedure_spans, s[1] <= b, b < s[2]
      PROVE  s[1] \in before /\ \A f \in before : f <= s[1]
  <2>1. PICK o \in offsets : s = SpanOf(o)
    BY DEF procedure_spans
  <2>2. b \in BlockBytes(o[1]) /\ o[1] \in 1..Len(blocks)
    <3>1. /\ o[1] \in 1..Len(blocks) /\ BlockStart[o[1]] \in Nat /\ unit.blocks[o[1]] \in Nat
          /\ BlockStart[o[1]] <= s[1] /\ s[2] <= BlockStart[o[1]] + unit.blocks[o[1]]
          /\ s[1] \in Nat /\ s[2] \in Nat
      BY <2>1, SpanIsItsEntrys
    <3>2. BlockStart[o[1]] <= b /\ b < BlockStart[o[1]] + unit.blocks[o[1]]
      BY <1>2, <1>3, <3>1
    <3> QED  BY <1>2, <3>1, <3>2, BytesOfABlock
  <2>3. o[1] = k
    BY <1>1, <2>2, BlocksAreDisjoint
  <2>4. s[1] = BlockStart[k] + o[2] /\ s[2] = BlockStart[k] + Limit(o) /\ o[2] \in Nat
        /\ Limit(o) \in Nat
    BY <2>1, <2>3, SpanIsItsEntrys
  <2>5. s[1] \in before
    BY <1>1, <1>3, <2>3, <2>4, EntriesAreOffsets
  <2>6. ASSUME NEW f \in before  PROVE f <= s[1]
    <3>1. PICK p \in offsets : p[1] = k /\ f = BlockStart[k] + p[2]
      BY <1>1, EntriesAreOffsets
    <3>2. p[2] > o[2] => Limit(o) <= p[2]
      BY <2>3, <3>1, LimitIsNext DEF IInv
    <3>3. p[2] \in Nat /\ f <= b
      BY ReadIsTyped DEF IInv
    <3> QED  BY <1>2, <1>3, <2>4, <3>1, <3>2, <3>3
  <2> QED  BY <2>5, <2>6
<1>4. ASSUME NEW e \in before, \A f \in before : f <= e
      PROVE  \E s \in procedure_spans : s[1] <= b /\ b < s[2] /\ s[1] = e
  <2>1. PICK o \in offsets : o[1] = k /\ e = BlockStart[k] + o[2]
    BY <1>1, EntriesAreOffsets
  <2>2. SpanOf(o) \in procedure_spans
    BY DEF procedure_spans
  <2>3. /\ SpanOf(o)[1] = e /\ SpanOf(o)[2] = BlockStart[k] + Limit(o)
        /\ o[2] \in Nat /\ Limit(o) \in Nat
    BY <2>1, SpanIsItsEntrys
  <2>4. b < BlockStart[k] + Limit(o)
    <3>1. CASE Limit(o) = blocks[k][2]
      BY <1>1, <1>2, <3>1, BlocksAreLaidOut
    <3>2. CASE \E p \in offsets : p[1] = k /\ p[2] > o[2] /\ p[2] = Limit(o)
      <4>1. PICK p \in offsets : p[1] = k /\ p[2] > o[2] /\ p[2] = Limit(o)
        BY <3>2
      <4>2. BlockStart[k] + p[2] \in Entries(k)
        BY <1>1, <4>1, EntriesAreOffsets
      <4>3. BlockStart[k] + p[2] <= b => BlockStart[k] + p[2] <= BlockStart[k] + o[2]
        BY <1>4, <2>1, <4>2
      <4> QED  BY <1>2, <2>3, <4>1, <4>3
    <3> QED  BY <2>1, <3>1, <3>2, LimitIsNext DEF IInv
  <2> QED  BY <2>2, <2>3, <2>4
<1> QED
  BY <1>3, <1>4

\* procedure_spans gives every byte of a block from its first declared entry on
\* to exactly one span, and the literal pool before that entry to none.
THEOREM EveryByteHasItsSpan == Spec => []SpansOwnTheirBlocks
BY OwnersAreNearest, IInvHolds, PTL

\* A routine is bytes of one block, and no declared entry is inside it.
LEMMA RoutineHasNoNeighbour == IInv => RoutineIsItsOwn
<1> SUFFICES ASSUME IInv, pc = "done" PROVE RoutineIsItsOwn
  BY DEF RoutineIsItsOwn
<1>1. span \in procedure_spans /\ length \in Nat /\ length = span[2] - span[1] /\ position \in Nat
  BY DecodeIsTyped
<1>2. routine = << span[1], span[1] + position >> /\ position <= length
  BY DEF IInv, Selected
<1>3. PICK o \in offsets : span = SpanOf(o)
  BY <1>1 DEF procedure_spans
<1> DEFINE k == o[1]
<1>4. /\ k \in 1..Len(blocks) /\ BlockStart[k] \in Nat /\ unit.blocks[k] \in Nat
      /\ span[1] \in Nat /\ span[2] \in Nat /\ o[2] \in Nat /\ Limit(o) \in Nat
      /\ span[1] = BlockStart[k] + o[2] /\ span[2] = BlockStart[k] + Limit(o)
      /\ BlockStart[k] <= span[1] /\ span[2] <= BlockStart[k] + unit.blocks[k]
  BY <1>3, SpanIsItsEntrys
<1>5. /\ routine[1] = span[1] /\ routine[2] = span[1] + position
      /\ routine[2] \in Nat /\ routine[2] <= span[2]
  <2>1. routine[1] = span[1] /\ routine[2] = span[1] + position
    BY <1>2
  <2>2. position \in Nat /\ position <= span[2] - span[1]
    BY <1>1, <1>2
  <2>3. span[1] + position \in Nat /\ span[1] + position <= span[2]
    <3>1. \A a, b, n \in Nat : n <= b - a => a + n \in Nat /\ a + n <= b
      OBVIOUS
    <3>2. span[1] \in Nat /\ span[2] \in Nat
      BY <1>4
    <3> QED  BY <2>2, <3>1, <3>2
  <2> QED  BY <2>1, <2>3
<1>6. routine[1]..(routine[2] - 1) \subseteq BlockBytes(k)
  <2>1. ASSUME NEW b \in routine[1]..(routine[2] - 1)  PROVE b \in BlockBytes(k)
    <3>1. b \in Nat /\ span[1] <= b /\ b < span[2]
      BY <1>4, <1>5
    <3>2. BlockStart[k] <= b /\ b < BlockStart[k] + unit.blocks[k]
      BY <1>4, <3>1
    <3> QED  BY <1>4, <3>1, <3>2, BytesOfABlock
  <2> QED  BY <2>1
<1>7. ASSUME NEW e \in Declared, routine[1] < e, e < routine[2]  PROVE FALSE
  <2>1. PICK j \in 1..Len(blocks) : e \in Entries(j)
    BY BlocksAreLaidOut DEF Declared
  <2>2. PICK p \in offsets : p[1] = j /\ e = BlockStart[j] + p[2]
    BY <2>1, BlocksAreLaidOut, EntriesAreOffsets
  <2>3. /\ p[2] \in Nat /\ BlockStart[j] \in Nat /\ unit.blocks[j] \in Nat
        /\ p[2] < unit.blocks[j]
    BY <2>1, <2>2, BlocksAreLaidOut, ReadIsTyped, OffsetsAreInside DEF IInv
  <2>4. e \in BlockBytes(j)
    BY <2>2, <2>3 DEF BlockBytes
  <2>5. e \in Nat /\ span[1] < e /\ e < span[2]
    <3>1. \A a, b, r, x \in Nat : a < x /\ x < r /\ r <= b => a < x /\ x < b
      OBVIOUS
    <3>2. e \in Nat
      BY <2>2, <2>3
    <3>3. span[1] < e /\ e < routine[2] /\ routine[2] <= span[2]
      BY <1>5, <1>7
    <3>4. span[1] \in Nat /\ span[2] \in Nat /\ routine[2] \in Nat
      BY <1>4, <1>5
    <3> QED  BY <3>1, <3>2, <3>3, <3>4
  <2>8. e \in BlockBytes(k)
    <3>1. BlockStart[k] <= e /\ e < BlockStart[k] + unit.blocks[k]
      BY <1>4, <2>5
    <3> QED  BY <1>4, <2>5, <3>1, BytesOfABlock
  <2>6. j = k
    BY <1>4, <2>1, <2>4, <2>8, BlocksAreDisjoint
  <2>7. p[2] > o[2] => Limit(o) <= p[2]
    BY <2>2, <2>6, LimitIsNext DEF IInv
  <2>9. BlockStart[k] + o[2] < BlockStart[k] + p[2] /\ BlockStart[k] + p[2] < BlockStart[k] + Limit(o)
    BY <1>4, <2>2, <2>5, <2>6
  <2> HIDE DEF k
  <2> QED  BY <1>4, <2>3, <2>7, <2>9
<1>8. k \in DOMAIN unit.blocks
  BY <1>4, BlocksAreLaidOut
<1> QED
  BY <1>6, <1>7, <1>8 DEF RoutineIsItsOwn

\* What primary_routine returns is never completed by code of a neighbour.
THEOREM NoNeighbourCompletesARoutine == Spec => []RoutineIsItsOwn
BY RoutineHasNoNeighbour, IInvHolds, PTL

\* The span is the one asked for, or the earliest of the unit.
LEMMA SelectionIsTheEarliest == IInv => SelectionIsDeclared
<1> SUFFICES ASSUME IInv, pc \in {"decode", "done"} PROVE SelectionIsDeclared
  BY DEF SelectionIsDeclared
<1>1. span \in Eligible /\ \A s \in Eligible : span[1] <= s[1]
  BY DEF IInv, Selected
<1>2. ASSUME NEW o \in offsets  PROVE SpanOf(o)[1] \in Declared
  <2>1. o[1] \in 1..Len(blocks) /\ SpanOf(o)[1] = BlockStart[o[1]] + o[2]
    BY SpanIsItsEntrys
  <2>2. SpanOf(o)[1] \in Entries(o[1])
    BY <2>1, BlocksAreLaidOut, EntriesAreOffsets
  <2> QED  BY <2>1, <2>2, BlocksAreLaidOut DEF Declared
<1>3. span[1] \in Declared
  BY <1>1, <1>2 DEF Eligible, procedure_spans
<1>4. ASSUME options.code_offset = None, NEW e \in Declared  PROVE span[1] <= e
  <2>1. PICK j \in 1..Len(blocks) : e \in Entries(j)
    BY BlocksAreLaidOut DEF Declared
  <2>2. PICK p \in offsets : p[1] = j /\ e = BlockStart[j] + p[2]
    BY <2>1, BlocksAreLaidOut, EntriesAreOffsets
  <2>3. SpanOf(p) \in Eligible
    BY <1>4 DEF Eligible, procedure_spans
  <2>4. SpanOf(p)[1] = e
    BY <2>2, SpanIsItsEntrys
  <2> QED  BY <1>1, <2>3, <2>4
<1>5. options.code_offset # None => span[1] = start + options.code_offset
  BY <1>1 DEF Eligible
<1> QED
  BY <1>3, <1>4, <1>5 DEF SelectionIsDeclared

\* primary_span selects the entry asked for, or the earliest, and no later one.
THEOREM DeclaredEntriesAreSelected == Spec => []SelectionIsDeclared
BY SelectionIsTheEarliest, IInvHolds, PTL
=============================================================================
