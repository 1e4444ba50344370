-------------------------- MODULE LinearSweep_proofs --------------------------
(***************************************************************************)
(* Theorems about LinearSweep, for every image, every set of seeds and     *)
(* every command line within the bounds.                                   *)
(***************************************************************************)
EXTENDS LinearSweep, WellFoundedInduction, FiniteSetTheorems, SequenceTheorems, TLAPS

-----------------------------------------------------------------------------
(* Positions and lines.                                                    *)

\* A set of positions that is not empty has a least one.
LEMMA LeastIsLeast ==
  ASSUME NEW S, S # {}, \A x \in S : x \in Int /\ x >= -1
  PROVE  Least(S) \in S /\ \A y \in S : Least(S) <= y
<1> DEFINE T == {x + 1 : x \in S}
<1> DEFINE R == {ss \in Nat \X Nat : ss[1] < ss[2]}
<1>1. IsWellFoundedOn(R, Nat)
  BY NatLessThanWellFounded DEF OpToRel
<1>2. T \subseteq Nat /\ T # {}
  OBVIOUS
<1>3. PICK t \in T : \A y \in T : ~ (<< y, t >> \in R)
  <2> HIDE DEF T, R
  <2> QED  BY <1>1, <1>2, WFMin
<1>4. \A y \in T : t <= y
  <2>1. ASSUME NEW y \in T, ~ (<< y, t >> \in R)  PROVE t <= y
    <3>1. << y, t >> \in Nat \X Nat  BY <1>2
    <3> QED  BY <1>2, <2>1, <3>1
  <2> QED  BY <1>3, <2>1
<1>5. PICK x \in S : t = x + 1
  OBVIOUS
<1>6. \A y \in S : x <= y
  BY <1>4, <1>5
<1> QED
  BY <1>6 DEF Least

\* What the types say of the input, as inequalities.
LEMMA InputIsTyped ==
  ASSUME TypeOK
  PROVE  /\ size \in Nat /\ args.start \in Int /\ -1 <= args.start /\ args.start <= size + 1
         /\ end \in Int /\ end <= size
         /\ args.end \in Int /\ (args.end # None => end <= args.end)
         /\ FrameEnd \in Int
         /\ args.frame \in BOOLEAN
         /\ \A p \in args.seeds : p \in Int /\ -1 <= p /\ p <= size + 1
         /\ \A p \in 0..(size - 1) : extent[p] \in Nat /\ p + extent[p] <= size
<1>1. size \in Nat
  BY BoundsAssumption DEF TypeOK
<1>2. args \in Arguments /\ extent \in Extents(size)
  BY DEF TypeOK
<1>3. args.start \in Positions /\ args.end \in Positions \union {None}
      /\ args.seeds \in SUBSET Positions /\ args.frame \in BOOLEAN
  BY <1>2 DEF Arguments
<1>4. \A p \in Positions : p \in Int /\ -1 <= p /\ p <= size + 1
  BY <1>1 DEF Positions
<1>5. args.end \in Int
  BY <1>3, <1>4 DEF None
<1>6. \A p \in 0..(size - 1) : extent[p] \in Nat /\ p + extent[p] <= size
  BY <1>1, <1>2 DEF Extents
<1>7. end \in Int /\ end <= size /\ (args.end # None => end <= args.end)
  BY <1>1, <1>5 DEF end
<1>8. FrameEnd \in Int
  BY <1>1, <1>5 DEF FrameEnd
<1> QED
  BY <1>1, <1>3, <1>4, <1>5, <1>6, <1>7, <1>8

\* Printing a line leaves those before it alone.
LEMMA Printing ==
  ASSUME NEW s \in Seq(Lines), NEW l \in Lines, NEW t, t = Append(s, l)
  PROVE  /\ t \in Seq(Lines) /\ Len(t) = Len(s) + 1 /\ Len(s) \in Nat
         /\ DOMAIN s = 1..Len(s) /\ DOMAIN t = 1..(Len(s) + 1)
         /\ \A i \in 1..Len(s) : t[i] = s[i]
         /\ t[Len(s) + 1] = l
OBVIOUS

\* The line of a position the sweep is at, and where it leads.
LEMMA SweepLineIsTyped ==
  ASSUME TypeOK, position >= 0, position < end
  PROVE  /\ position \in 0..(size - 1)
         /\ SweepLine(position) \in Lines
         /\ SweepLine(position).at = position
         /\ SweepLine(position).length = Advance(position)
         /\ SweepLine(position).kind = IF extent[position] > 0 THEN "sweep" ELSE "placeholder"
         /\ Advance(position) \in Nat /\ Advance(position) >= 1
         /\ position + Advance(position) <= size
<1>1. position \in Int
  BY DEF TypeOK
<1>2. position \in 0..(size - 1) /\ size \in Nat
  BY <1>1, InputIsTyped
<1>3. extent[position] \in Nat /\ position + extent[position] <= size
  BY <1>2, InputIsTyped
<1> QED
  BY <1>2, <1>3 DEF SweepLine, Line, Lines, Advance

\* Seeds and frames are visited in ascending order.
LEMMA PendingIsVisited ==
  ASSUME TypeOK, Pending # {}
  PROVE  /\ Least(Pending) \in Pending /\ \A q \in Pending : Least(Pending) <= q
         /\ Least(Pending) \in Int /\ -1 <= Least(Pending) /\ Least(Pending) <= size + 1
<1>1. \A x \in Pending : x \in Int /\ x >= -1 /\ x <= size + 1
  BY InputIsTyped DEF Pending
<1> QED
  BY <1>1, LeastIsLeast

LEMMA FramesAreVisited ==
  ASSUME TypeOK, FramesLeft # {}
  PROVE  /\ Least(FramesLeft) \in FramesLeft /\ \A q \in FramesLeft : Least(FramesLeft) <= q
         /\ Least(FramesLeft) \in Int /\ -1 <= Least(FramesLeft) /\ Least(FramesLeft) <= size + 1
<1>1. \A x \in FramesLeft : x \in Int /\ x >= -1 /\ x <= size + 1
  BY InputIsTyped DEF FramesLeft
<1> QED
  BY <1>1, LeastIsLeast

-----------------------------------------------------------------------------
(* Types.                                                                  *)

\* Position, lines and exit status by inequalities: what a step has to keep.
LEMMA TypesOfAStep ==
  ASSUME TypeOK, UNCHANGED input,
         files' \in {"unread", "usable", "refused", "malformed"},
         pc' \in {"load", "sweep", "seeds", "frames", "done"},
         position' \in Int, -1 <= position', position' <= size + 1,
         emitted' \in SUBSET (0..(size - 1)),
         listing' \in Seq(Lines),
         exit' \in {NoExit, 0, 1, 2},
         exit' = NoExit <=> pc' # "done"
  PROVE  TypeOK'
<1>1. size' = size /\ extent' = extent /\ args' = args
  BY DEF input
<1>2. Extents(size)' = Extents(size) /\ Arguments' = Arguments
  BY <1>1 DEF Extents, Arguments, Positions
<1>3. size \in Nat
  BY InputIsTyped
<1>4. position' \in -1..(size + 1)
  BY <1>3
<1> QED
  BY <1>1, <1>2, <1>4 DEF TypeOK

LEMMA TypeStep == TypeOK /\ [Next]_vars => TypeOK'
<1> SUFFICES ASSUME TypeOK, [Next]_vars PROVE TypeOK'
  OBVIOUS
<1>0. size \in Nat /\ position \in Int /\ -1 <= position /\ position <= size + 1
      /\ emitted \in SUBSET (0..(size - 1)) /\ listing \in Seq(Lines)
      /\ exit \in {NoExit, 0, 1, 2} /\ (exit = NoExit <=> pc # "done")
      /\ files \in {"unread", "usable", "refused", "malformed"}
  <2>1. size \in Nat  BY InputIsTyped
  <2> QED  BY <2>1 DEF TypeOK
<1>1. CASE LoadInputs
  <2>1. /\ UNCHANGED << input, position, emitted, listing >>
        /\ files' \in {"unread", "usable", "refused", "malformed"}
        /\ pc' \in {"load", "sweep", "seeds", "frames", "done"}
        /\ exit' \in {NoExit, 0, 1, 2}
        /\ exit' = NoExit <=> pc' # "done"
    BY <1>0, <1>1 DEF LoadInputs, Exit, NoExit
  <2> QED
    BY <1>0, <2>1, TypesOfAStep
<1>2. CASE SweepStep
  <2>1. CASE position < 0
    <3>1. UNCHANGED << input, files, position, emitted, listing >> /\ pc' = "done" /\ exit' = 1
      BY <1>2, <2>1 DEF SweepStep, Exit
    <3> QED
      BY <1>0, <3>1, TypesOfAStep DEF NoExit
  <2>2. CASE ~(position < 0)
    <3>1. /\ UNCHANGED << input, files, pc, exit >>
          /\ pc = "sweep" /\ position >= 0 /\ position < end
          /\ listing' = Append(listing, SweepLine(position))
          /\ position' = position + Advance(position)
          /\ emitted' \in SUBSET (emitted \union {position})
      BY <1>0, <1>2, <2>2 DEF SweepStep
    <3>2. /\ listing' \in Seq(Lines) /\ position' \in Int /\ -1 <= position' /\ position' <= size + 1
          /\ emitted' \in SUBSET (0..(size - 1))
      BY <1>0, <3>1, SweepLineIsTyped
    <3> QED
      BY <1>0, <3>1, <3>2, TypesOfAStep
  <2> QED
    BY <2>1, <2>2
<1>3. CASE SweepEnds
  BY <1>0, <1>3, TypesOfAStep DEF SweepEnds
<1>4. CASE SeedStep
  <2>1. Pending # {} /\ UNCHANGED << input, files, emitted >> /\ position' = Least(Pending)
        /\ pc = "seeds"
    BY <1>4 DEF SeedStep
  <2>2. position' \in Int /\ -1 <= position' /\ position' <= size + 1
    BY <2>1, PendingIsVisited
  <2>3. CASE Least(Pending) \in 0..(size - 1) /\ extent[Least(Pending)] > 0
    <3>1. listing' = Append(listing, Line("seed", Least(Pending), extent[Least(Pending)]))
          /\ UNCHANGED << pc, exit >>
      BY <1>4, <2>3 DEF SeedStep
    <3>2. Line("seed", Least(Pending), extent[Least(Pending)]) \in Lines
      BY <2>3, InputIsTyped DEF Line, Lines
    <3> QED
      BY <1>0, <2>1, <2>2, <3>1, <3>2, TypesOfAStep
  <2>4. CASE ~(Least(Pending) \in 0..(size - 1) /\ extent[Least(Pending)] > 0)
    <3>1. UNCHANGED listing /\ pc' = "done" /\ exit' = 2
      BY <1>4, <2>4 DEF SeedStep, Exit
    <3> QED
      BY <1>0, <2>1, <2>2, <3>1, TypesOfAStep DEF NoExit
  <2> QED
    BY <2>3, <2>4
<1>5. CASE SeedsEnd
  BY <1>0, <1>5, TypesOfAStep DEF SeedsEnd, Exit, NoExit
<1>6. CASE FrameStep
  <2>1. FramesLeft # {} /\ UNCHANGED << input, files, emitted >> /\ position' = Least(FramesLeft)
        /\ pc = "frames"
    BY <1>6 DEF FrameStep
  <2>2. position' \in Int /\ -1 <= position' /\ position' <= size + 1
    BY <2>1, FramesAreVisited
  <2>3. CASE Least(FramesLeft) \in 0..(size - 1) /\ FrameEnd \in Least(FramesLeft)..size
    <3>1. listing' = Append(listing, Line("frame", Least(FramesLeft), FrameEnd - Least(FramesLeft)))
          /\ UNCHANGED << pc, exit >>
      BY <1>6, <2>3 DEF FrameStep
    <3>2. Line("frame", Least(FramesLeft), FrameEnd - Least(FramesLeft)) \in Lines
      BY <1>0, <2>3, InputIsTyped DEF Line, Lines
    <3> QED
      BY <1>0, <2>1, <2>2, <3>1, <3>2, TypesOfAStep
  <2>4. CASE ~(Least(FramesLeft) \in 0..(size - 1) /\ FrameEnd \in Least(FramesLeft)..size)
    <3>1. UNCHANGED listing /\ pc' = "done" /\ exit' \in {1, 2}
      BY <1>6, <2>4 DEF FrameStep, Exit
    <3> QED
      BY <1>0, <2>1, <2>2, <3>1, TypesOfAStep DEF NoExit
  <2> QED
    BY <2>3, <2>4
<1>7. CASE FramesEnd
  BY <1>0, <1>7, TypesOfAStep DEF FramesEnd, Exit, NoExit
<1>8. CASE UNCHANGED vars
  <2>1. UNCHANGED << input, files, pc, position, emitted, listing, exit >>
    BY <1>8 DEF vars
  <2>2. pc' \in {"load", "sweep", "seeds", "frames", "done"}
    BY <2>1 DEF TypeOK
  <2> QED
    BY <1>0, <2>1, <2>2, TypesOfAStep
<1> QED
  BY <1>1, <1>2, <1>3, <1>4, <1>5, <1>6, <1>7, <1>8 DEF Next

LEMMA TypeInit == Init => TypeOK
<1> SUFFICES ASSUME Init PROVE TypeOK
  OBVIOUS
<1>1. args.start \in Positions
  BY DEF Init, Arguments
<1>2. position \in -1..(size + 1) /\ listing \in Seq(Lines)
  BY <1>1 DEF Init, Positions
<1> QED
  BY <1>2 DEF Init, TypeOK, NoExit

\* Main's locals keep their types and the exit status is set exactly when main
\* has returned, for every image and command line.
THEOREM TypeCorrect == Spec => []TypeOK
<1>1. Init => TypeOK
  BY TypeInit
<1>2. TypeOK /\ [Next]_vars => TypeOK'
  BY TypeStep
<1> QED
  BY <1>1, <1>2, PTL DEF Spec

-----------------------------------------------------------------------------
(* The steps of main as the lines they print.                              *)

PrintsNothing ==
  /\ UNCHANGED << input, listing, emitted >>
  /\ pc' = "load"   => pc = "load" /\ position' = position
  /\ pc' = "sweep"  => position' = position /\ (pc = "sweep" \/ (pc = "load" /\ ~args.frame))
  /\ pc' = "seeds"  => pc = "seeds" \/ (pc = "sweep" /\ position >= end)
  /\ pc' = "frames" => pc = "frames" \/ (pc = "load" /\ args.frame)

PrintsSweep ==
  /\ UNCHANGED input
  /\ pc = "sweep" /\ pc' = "sweep"
  /\ position >= 0 /\ position < end
  /\ position' = position + Advance(position)
  /\ listing' = Append(listing, SweepLine(position))
  /\ emitted' = IF extent[position] > 0 THEN emitted \union {position} ELSE emitted

PrintsSeed(p) ==
  /\ UNCHANGED << input, emitted >>
  /\ pc = "seeds" /\ pc' = "seeds"
  /\ p \in Pending /\ p \in 0..(size - 1) /\ extent[p] > 0
  /\ listing' = Append(listing, Line("seed", p, extent[p]))

PrintsFrame(p) ==
  /\ UNCHANGED << input, emitted >>
  /\ pc = "frames" /\ pc' = "frames"
  /\ p \in FramesLeft /\ p \in 0..(size - 1) /\ FrameEnd \in p..size
  /\ listing' = Append(listing, Line("frame", p, FrameEnd - p))

LEMMA StepsPrint ==
  ASSUME TypeOK, [Next]_vars
  PROVE  \/ PrintsNothing
         \/ PrintsSweep
         \/ \E p \in 0..(size - 1) : PrintsSeed(p) \/ PrintsFrame(p)
<1>1. CASE LoadInputs
  <2>1. PrintsNothing
    BY <1>1 DEF LoadInputs, Exit, PrintsNothing
  <2> QED  BY <2>1
<1>2. CASE SweepStep
  <2>0. position \in Int
    BY DEF TypeOK
  <2>1. CASE position < 0
    <3>1. PrintsNothing
      BY <1>2, <2>1 DEF SweepStep, Exit, PrintsNothing
    <3> QED  BY <3>1
  <2>2. CASE ~(position < 0)
    <3>1. PrintsSweep
      BY <1>2, <2>0, <2>2 DEF SweepStep, PrintsSweep
    <3> QED  BY <3>1
  <2> QED  BY <2>1, <2>2
<1>3. CASE SweepEnds
  <2>1. PrintsNothing
    BY <1>3 DEF SweepEnds, PrintsNothing
  <2> QED  BY <2>1
<1>4. CASE SeedStep
  <2>1. Least(Pending) \in Pending
    BY <1>4, PendingIsVisited DEF SeedStep
  <2>2. CASE Least(Pending) \in 0..(size - 1) /\ extent[Least(Pending)] > 0
    <3>1. PrintsSeed(Least(Pending))
      BY <1>4, <2>1, <2>2 DEF SeedStep, PrintsSeed
    <3> QED  BY <2>2, <3>1
  <2>3. CASE ~(Least(Pending) \in 0..(size - 1) /\ extent[Least(Pending)] > 0)
    <3>1. PrintsNothing
      BY <1>4, <2>3 DEF SeedStep, Exit, PrintsNothing
    <3> QED  BY <3>1
  <2> QED  BY <2>2, <2>3
<1>5. CASE SeedsEnd
  <2>1. PrintsNothing
    BY <1>5 DEF SeedsEnd, Exit, PrintsNothing
  <2> QED  BY <2>1
<1>6. CASE FrameStep
  <2>1. Least(FramesLeft) \in FramesLeft
    BY <1>6, FramesAreVisited DEF FrameStep
  <2>2. CASE Least(FramesLeft) \in 0..(size - 1) /\ FrameEnd \in Least(FramesLeft)..size
    <3>1. PrintsFrame(Least(FramesLeft))
      BY <1>6, <2>1, <2>2 DEF FrameStep, PrintsFrame
    <3> QED  BY <2>2, <3>1
  <2>3. CASE ~(Least(FramesLeft) \in 0..(size - 1) /\ FrameEnd \in Least(FramesLeft)..size)
    <3>1. PrintsNothing
      BY <1>6, <2>3 DEF FrameStep, Exit, PrintsNothing
    <3> QED  BY <3>1
  <2> QED  BY <2>2, <2>3
<1>7. CASE FramesEnd
  <2>1. PrintsNothing
    BY <1>7 DEF FramesEnd, Exit, PrintsNothing
  <2> QED  BY <2>1
<1>8. CASE UNCHANGED vars
  <2>1. PrintsNothing
    BY <1>8 DEF vars, PrintsNothing
  <2> QED  BY <2>1
<1> QED
  BY <1>1, <1>2, <1>3, <1>4, <1>5, <1>6, <1>7, <1>8 DEF Next

-----------------------------------------------------------------------------
(* Lines, one position each.                                               *)

\* NoLineTwice is not inductive: that a seed has no line yet is known from the
\* set of what the sweep emitted, so the lines have to agree with that set, and
\* that the sweep prints no position again from where it is.
Started == pc = "load" => listing = << >> /\ position = args.start /\ emitted = {}

Modes ==
  /\ pc \in {"sweep", "seeds"} => ~args.frame
  /\ pc = "frames" => args.frame

LinesAreKnown ==
  \A i \in DOMAIN listing :
    /\ listing[i].kind = "sweep" => listing[i].at \in emitted
    /\ listing[i].kind = "placeholder" => extent[listing[i].at] = 0
    /\ listing[i].kind = "frame" <=> args.frame
    /\ listing[i].at + listing[i].length <= size

EmittedAreListed == \A p \in emitted : Listed(p)

SweptBehind ==
  pc = "sweep" =>
    \A i \in DOMAIN listing :
      /\ listing[i].kind \in {"sweep", "placeholder"}
      /\ listing[i].at < position
      /\ listing[i].at + listing[i].length <= position

Bookkeeping == Started /\ Modes /\ LinesAreKnown /\ EmittedAreListed /\ SweptBehind /\ NoLineTwice

LEMMA BookkeepingInit == Init => Bookkeeping
BY DEF Init, Bookkeeping, Started, Modes, LinesAreKnown, EmittedAreListed, SweptBehind, NoLineTwice

LEMMA BookkeepingQuiet ==
  ASSUME TypeOK, Bookkeeping, PrintsNothing
  PROVE  Bookkeeping'
<1>1. /\ size' = size /\ extent' = extent /\ args' = args
      /\ listing' = listing /\ emitted' = emitted
  BY DEF PrintsNothing, input
<1>2. Started' /\ Modes'
  BY <1>1 DEF Bookkeeping, Started, Modes, PrintsNothing
<1>3. LinesAreKnown' /\ EmittedAreListed' /\ NoLineTwice'
  BY <1>1 DEF Bookkeeping, LinesAreKnown, EmittedAreListed, Listed, NoLineTwice
<1>4. SweptBehind'
  <2>1. CASE pc = "load"
    <3>1. listing' = << >>  BY <1>1, <2>1 DEF Bookkeeping, Started
    <3> QED  BY <3>1 DEF SweptBehind
  <2>2. CASE pc # "load"
    <3>1. SUFFICES ASSUME pc' = "sweep" PROVE SweptBehind'
      BY DEF SweptBehind
    <3>2. pc = "sweep" /\ position' = position
      BY <2>2, <3>1 DEF PrintsNothing
    <3> QED  BY <1>1, <3>2 DEF Bookkeeping, SweptBehind
  <2> QED  BY <2>1, <2>2
<1> QED
  BY <1>2, <1>3, <1>4 DEF Bookkeeping

\* A line at a position that has none, of the right kind.
LEMMA LinesAfterPrinting ==
  ASSUME TypeOK, Bookkeeping, UNCHANGED input, NEW l \in Lines, listing' = Append(listing, l),
         emitted \subseteq emitted', emitted' \subseteq emitted \union {l.at},
         l.kind = "sweep" => l.at \in emitted',
         l.kind = "placeholder" => extent[l.at] = 0 /\ emitted' = emitted,
         l.kind = "frame" <=> args.frame,
         l.at + l.length <= size,
         \A i \in DOMAIN listing : listing[i].at # l.at
  PROVE  LinesAreKnown' /\ EmittedAreListed' /\ NoLineTwice'
<1>0. size' = size /\ extent' = extent /\ args' = args
  BY DEF input
<1>1. /\ DOMAIN listing = 1..Len(listing) /\ DOMAIN listing' = 1..(Len(listing) + 1)
      /\ Len(listing) \in Nat
      /\ \A i \in 1..Len(listing) : listing'[i] = listing[i]
      /\ listing'[Len(listing) + 1] = l
  BY Printing DEF TypeOK
<1>2. LinesAreKnown'
  BY <1>0, <1>1 DEF Bookkeeping, LinesAreKnown
<1>3. EmittedAreListed'
  <2>1. \A p \in emitted : Listed(p)'
    BY <1>1 DEF Bookkeeping, EmittedAreListed, Listed
  <2>2. l.kind # "placeholder" => Listed(l.at)'
    BY <1>1 DEF Listed
  <2> QED  BY <2>1, <2>2 DEF EmittedAreListed
<1>4. NoLineTwice'
  BY <1>1 DEF Bookkeeping, NoLineTwice
<1> QED
  BY <1>2, <1>3, <1>4

LEMMA BookkeepingSweep ==
  ASSUME TypeOK, Bookkeeping, PrintsSweep
  PROVE  Bookkeeping'
<1>0. size' = size /\ extent' = extent /\ args' = args /\ UNCHANGED input
  BY DEF PrintsSweep, input
<1> DEFINE l == SweepLine(position)
<1>1. /\ l \in Lines /\ l.at = position /\ l.length = Advance(position)
      /\ l.kind = IF extent[position] > 0 THEN "sweep" ELSE "placeholder"
      /\ Advance(position) \in Nat /\ Advance(position) >= 1
      /\ position + Advance(position) <= size /\ position \in 0..(size - 1)
  BY SweepLineIsTyped DEF PrintsSweep
<1>2. /\ DOMAIN listing = 1..Len(listing) /\ DOMAIN listing' = 1..(Len(listing) + 1)
      /\ Len(listing) \in Nat
      /\ \A i \in 1..Len(listing) : listing'[i] = listing[i]
      /\ listing'[Len(listing) + 1] = l
  BY <1>1, Printing DEF TypeOK, PrintsSweep
<1>3. /\ \A i \in DOMAIN listing : /\ listing[i].kind \in {"sweep", "placeholder"}
                                   /\ listing[i].at < position
                                   /\ listing[i].at + listing[i].length <= position
  BY DEF Bookkeeping, SweptBehind, PrintsSweep
<1>4. \A i \in DOMAIN listing : listing[i] \in Lines
  BY <1>2 DEF TypeOK
<1>5. \A i \in DOMAIN listing : listing[i].at # l.at
  BY <1>1, <1>3, <1>4 DEF Lines
<1>6. /\ listing' = Append(listing, l)
      /\ emitted' = IF extent[position] > 0 THEN emitted \union {position} ELSE emitted
      /\ pc = "sweep" /\ pc' = "sweep" /\ position' = position + Advance(position)
  BY DEF PrintsSweep
<1>7. extent[position] \in Nat
  BY <1>1, InputIsTyped
<1>8. ~args.frame
  BY <1>6 DEF Bookkeeping, Modes
<1>9. LinesAreKnown' /\ EmittedAreListed' /\ NoLineTwice'
  <2>1. l.kind = "sweep" => l.at \in emitted'
    BY <1>1, <1>6
  <2>2. l.kind = "placeholder" => extent[l.at] = 0 /\ emitted' = emitted
    BY <1>1, <1>6, <1>7
  <2>3. (l.kind = "frame" <=> args.frame) /\ l.at + l.length <= size
        /\ emitted \subseteq emitted' /\ emitted' \subseteq emitted \union {l.at}
    BY <1>1, <1>6, <1>8
  <2> HIDE DEF l
  <2> QED  BY <1>0, <1>1, <1>5, <1>6, <2>1, <2>2, <2>3, LinesAfterPrinting
<1>10. Started' /\ Modes'
  BY <1>0, <1>6, <1>8 DEF Started, Modes
<1>11. SweptBehind'
  <2>1. ASSUME NEW i \in 1..(Len(listing) + 1)
        PROVE  /\ listing'[i].kind \in {"sweep", "placeholder"}
               /\ listing'[i].at < position' /\ listing'[i].at + listing'[i].length <= position'
    <3>1. CASE i = Len(listing) + 1
      BY <1>1, <1>2, <1>6, <3>1
    <3>2. CASE i \in 1..Len(listing)
      <4>1. listing'[i] = listing[i] /\ listing[i].at \in Nat /\ listing[i].length \in Nat
        BY <1>2, <1>4, <3>2 DEF Lines
      <4> QED  BY <1>1, <1>2, <1>3, <1>6, <3>2, <4>1
    <3> QED  BY <1>2, <3>1, <3>2
  <2> QED  BY <1>2, <2>1 DEF SweptBehind
<1> QED
  BY <1>9, <1>10, <1>11 DEF Bookkeeping

LEMMA BookkeepingSeed ==
  ASSUME TypeOK, Bookkeeping, NEW p \in 0..(size - 1), PrintsSeed(p)
  PROVE  Bookkeeping'
<1>0. size' = size /\ extent' = extent /\ args' = args /\ UNCHANGED input /\ emitted' = emitted
  BY DEF PrintsSeed, input
<1> DEFINE l == Line("seed", p, extent[p])
<1>1. extent[p] \in Nat /\ p + extent[p] <= size /\ extent[p] > 0 /\ p \in Nat
  BY InputIsTyped DEF PrintsSeed
<1>2. l \in Lines /\ l.at = p /\ l.length = extent[p] /\ l.kind = "seed"
  BY <1>1 DEF Line, Lines
<1>3. p \notin emitted /\ p \notin Visited
  BY DEF PrintsSeed, Pending
<1>4. ~args.frame /\ pc' = "seeds" /\ pc = "seeds" /\ listing' = Append(listing, l)
  BY DEF PrintsSeed, Bookkeeping, Modes
<1>5. \A i \in DOMAIN listing : listing[i].at # l.at
  <2> SUFFICES ASSUME NEW i \in DOMAIN listing, listing[i].at = p PROVE FALSE
    BY <1>2
  <2>1. listing[i].kind \in {"sweep", "placeholder", "seed", "frame"}
    <3>1. listing \in Seq(Lines)
      BY DEF TypeOK
    <3>2. listing[i] \in Lines
      BY <3>1
    <3> QED
      BY <3>2 DEF Lines
  <2>2. listing[i].kind # "frame"
    BY <1>4 DEF Bookkeeping, LinesAreKnown
  <2>3. listing[i].kind # "sweep" /\ listing[i].kind # "placeholder"
    BY <1>1, <1>3 DEF Bookkeeping, LinesAreKnown
  <2>4. listing[i].kind # "seed"
    BY <1>3 DEF Visited
  <2> QED  BY <2>1, <2>2, <2>3, <2>4
<1>6. LinesAreKnown' /\ EmittedAreListed' /\ NoLineTwice'
  <2> HIDE DEF l
  <2> QED  BY <1>0, <1>1, <1>2, <1>4, <1>5, LinesAfterPrinting
<1>7. Started' /\ Modes' /\ SweptBehind'
  BY <1>0, <1>4 DEF Started, Modes, SweptBehind
<1> QED
  BY <1>6, <1>7 DEF Bookkeeping

LEMMA BookkeepingFrame ==
  ASSUME TypeOK, Bookkeeping, NEW p \in 0..(size - 1), PrintsFrame(p)
  PROVE  Bookkeeping'
<1>0. size' = size /\ extent' = extent /\ args' = args /\ UNCHANGED input /\ emitted' = emitted
  BY DEF PrintsFrame, input
<1> DEFINE l == Line("frame", p, FrameEnd - p)
<1>1. FrameEnd \in p..size /\ p \in Nat /\ size \in Nat
  BY InputIsTyped DEF PrintsFrame
<1>2. l \in Lines /\ l.at = p /\ l.length = FrameEnd - p /\ l.kind = "frame" /\ l.at + l.length <= size
  BY <1>1 DEF Line, Lines
<1>3. args.frame /\ pc' = "frames" /\ pc = "frames" /\ listing' = Append(listing, l)
  BY DEF PrintsFrame, Bookkeeping, Modes
<1>4. \A i \in DOMAIN listing : listing[i].at # l.at
  BY <1>2 DEF PrintsFrame, FramesLeft
<1>5. LinesAreKnown' /\ EmittedAreListed' /\ NoLineTwice'
  <2> HIDE DEF l
  <2> QED  BY <1>0, <1>2, <1>3, <1>4, LinesAfterPrinting
<1>6. Started' /\ Modes' /\ SweptBehind'
  BY <1>0, <1>3 DEF Started, Modes, SweptBehind
<1> QED
  BY <1>5, <1>6 DEF Bookkeeping

LEMMA BookkeepingStep == TypeOK /\ Bookkeeping /\ [Next]_vars => Bookkeeping'
BY StepsPrint, BookkeepingQuiet, BookkeepingSweep, BookkeepingSeed, BookkeepingFrame

THEOREM BookkeepingHolds == Spec => []Bookkeeping
<1>1. Init => Bookkeeping
  BY BookkeepingInit
<1> QED
  BY <1>1, TypeCorrect, BookkeepingStep, PTL DEF Spec

\* No position has two lines, whatever seeds the sweep happens to start on.
THEOREM OneLinePerPosition == Spec => []NoLineTwice
<1>1. Bookkeeping => NoLineTwice
  BY DEF Bookkeeping
<1> QED
  BY <1>1, BookkeepingHolds, PTL

-----------------------------------------------------------------------------
(* The sweep's lines tile the range.                                       *)

\* SweepTiles says where the next line goes; that no byte is on two lines needs
\* their order as well, and that none is left out how far they reach.
SweptInOrder ==
  \A i, j \in Swept : i < j => listing[i].at + listing[i].length <= listing[j].at

SweptBelowEnd == \A i \in Swept : listing[i].at < end

Covered(to) == \A b \in args.start..(to - 1) : \E i \in Swept : b \in Bytes(i)

RangeCovered ==
  /\ pc = "sweep" => Covered(position)
  /\ pc = "seeds" => Covered(end)

Tiling == SweepTiles /\ SweptInOrder /\ SweptBelowEnd /\ RangeCovered

\* Which lines are the sweep's, after one more.
LEMMA SweptAfterPrinting ==
  ASSUME TypeOK, NEW l \in Lines, listing' = Append(listing, l)
  PROVE  /\ Len(listing) \in Nat /\ DOMAIN listing = 1..Len(listing)
         /\ DOMAIN listing' = 1..(Len(listing) + 1) /\ Len(listing') = Len(listing) + 1
         /\ \A i \in 1..Len(listing) : listing'[i] = listing[i] /\ listing[i] \in Lines
         /\ listing'[Len(listing) + 1] = l
         /\ Swept' = Swept \union (IF l.kind \in {"sweep", "placeholder"}
                                   THEN {Len(listing) + 1} ELSE {})
         /\ Swept \subseteq 1..Len(listing)
<1>1. listing \in Seq(Lines)
  BY DEF TypeOK
<1>2. /\ Len(listing) \in Nat /\ DOMAIN listing = 1..Len(listing)
      /\ DOMAIN listing' = 1..(Len(listing) + 1) /\ Len(listing') = Len(listing) + 1
      /\ \A i \in 1..Len(listing) : listing'[i] = listing[i]
      /\ listing'[Len(listing) + 1] = l
  BY <1>1, Printing
<1>3. \A i \in 1..Len(listing) : listing[i] \in Lines
  BY <1>1
<1>4. Swept \subseteq 1..Len(listing)
  BY <1>2 DEF Swept
<1>5. \A i : i \in Swept' <=> i \in Swept \/ (i = Len(listing) + 1 /\ l.kind \in {"sweep", "placeholder"})
  BY <1>2 DEF Swept
<1> QED
  BY <1>2, <1>3, <1>4, <1>5

LEMMA TilingInit == Init => Tiling
BY DEF Init, Tiling, SweepTiles, SweptInOrder, SweptBelowEnd, RangeCovered, Swept

LEMMA TilingQuiet ==
  ASSUME TypeOK, Bookkeeping, Tiling, PrintsNothing
  PROVE  Tiling'
<1>1. /\ size' = size /\ extent' = extent /\ args' = args
      /\ listing' = listing /\ emitted' = emitted
  BY DEF PrintsNothing, input
<1>2. Swept' = Swept /\ end' = end /\ \A i : Bytes(i)' = Bytes(i)
  BY <1>1 DEF Swept, end, Bytes
<1>3. SweptInOrder' /\ SweptBelowEnd'
  BY <1>1, <1>2 DEF Tiling, SweptInOrder, SweptBelowEnd
<1>4. pc' = "sweep" => position' = IF listing = << >> THEN args.start
                          ELSE listing[Len(listing)].at + listing[Len(listing)].length
  <2>1. CASE pc = "sweep"
    BY <2>1 DEF Tiling, SweepTiles, PrintsNothing
  <2>2. CASE pc = "load"
    BY <2>2 DEF Bookkeeping, Started, PrintsNothing
  <2> QED
    BY <2>1, <2>2 DEF PrintsNothing
<1>5. SweepTiles'
  <2>1. \A i \in Swept' : listing'[i].at =
          IF i = 1 THEN args'.start ELSE listing'[i - 1].at + listing'[i - 1].length
    BY <1>1, <1>2 DEF Tiling, SweepTiles
  <2> QED
    BY <1>1, <1>4, <2>1 DEF SweepTiles
<1>6. \A to : Covered(to) => (\A b \in args'.start..(to - 1) : \E i \in Swept' : b \in Bytes(i)')
  BY <1>1, <1>2 DEF Covered
<1>7. pc' = "sweep" => Covered(position)'
  <2>1. CASE pc = "sweep"
    BY <1>6, <2>1 DEF Tiling, RangeCovered, PrintsNothing, Covered
  <2>2. CASE pc = "load" /\ pc' = "sweep"
    <3>1. position' = args.start /\ args.start \in Int
      BY <2>2, InputIsTyped DEF Bookkeeping, Started, PrintsNothing
    <3>2. args.start..(args.start - 1) = {}
      BY <3>1
    <3> QED  BY <1>1, <3>1, <3>2 DEF Covered
  <2> QED
    BY <2>1, <2>2 DEF PrintsNothing
<1>8. pc' = "seeds" => Covered(end)'
  <2>1. CASE pc = "seeds"
    BY <1>2, <1>6, <2>1 DEF Tiling, RangeCovered, Covered
  <2>2. CASE pc = "sweep" /\ position >= end
    <3>1. Covered(position) /\ position \in Int /\ end \in Int /\ args.start \in Int
      BY <2>2, InputIsTyped DEF Tiling, RangeCovered, TypeOK
    <3>2. args.start..(end - 1) \subseteq args.start..(position - 1)
      BY <2>2, <3>1
    <3> QED  BY <1>1, <1>2, <3>1, <3>2 DEF Covered
  <2> QED
    BY <2>1, <2>2 DEF PrintsNothing
<1> QED
  BY <1>3, <1>5, <1>7, <1>8 DEF Tiling, RangeCovered, Covered

LEMMA TilingSweep ==
  ASSUME TypeOK, Bookkeeping, Tiling, PrintsSweep
  PROVE  Tiling'
<1>0. /\ size' = size /\ extent' = extent /\ args' = args
      /\ pc = "sweep" /\ pc' = "sweep" /\ position' = position + Advance(position)
      /\ position < end
  BY DEF PrintsSweep, input
<1> DEFINE l == SweepLine(position)
           n == Len(listing)
<1>1. /\ l \in Lines /\ l.at = position /\ l.length = Advance(position)
      /\ l.kind \in {"sweep", "placeholder"}
      /\ Advance(position) \in Nat /\ position \in Nat /\ end \in Int /\ args.start \in Int
  BY SweepLineIsTyped, InputIsTyped DEF PrintsSweep
<1>2. listing' = Append(listing, l)
  BY DEF PrintsSweep
<1>3. /\ n \in Nat /\ DOMAIN listing = 1..n
      /\ DOMAIN listing' = 1..(n + 1) /\ Len(listing') = n + 1
      /\ \A i \in 1..n : listing'[i] = listing[i] /\ listing[i] \in Lines
      /\ listing'[n + 1] = l
      /\ Swept' = Swept \union {n + 1} /\ Swept \subseteq 1..n
  <2> HIDE DEF l
  <2> QED  BY <1>1, <1>2, SweptAfterPrinting
<1> HIDE DEF l
<1>4. end' = end
  BY <1>0 DEF end
<1>5. \A i \in Swept : /\ listing[i].at \in Nat /\ listing[i].length \in Nat
                       /\ listing[i].at + listing[i].length <= position
  <2>1. \A i \in DOMAIN listing : listing[i].at + listing[i].length <= position
    BY <1>0 DEF Bookkeeping, SweptBehind
  <2> QED  BY <1>3, <2>1 DEF Lines
<1>6. SweepTiles'
  <2>1. position = IF listing = << >> THEN args.start ELSE listing[n].at + listing[n].length
    BY <1>0 DEF Tiling, SweepTiles
  <2>2. listing = << >> <=> n = 0
    BY DEF TypeOK
  <2>3. ASSUME NEW i \in Swept'
        PROVE  listing'[i].at = IF i = 1 THEN args'.start
                                ELSE listing'[i - 1].at + listing'[i - 1].length
    <3>1. CASE i = n + 1
      BY <1>0, <1>1, <1>3, <2>1, <2>2, <3>1
    <3>2. CASE i \in Swept
      <4>1. i \in 1..n /\ (i # 1 => i - 1 \in 1..n)
        BY <1>3, <3>2
      <4>2. listing[i].at = IF i = 1 THEN args.start ELSE listing[i - 1].at + listing[i - 1].length
        BY <3>2 DEF Tiling, SweepTiles
      <4> QED  BY <1>0, <1>3, <4>1, <4>2
    <3> QED  BY <1>3, <3>1, <3>2
  <2>4. position' = listing'[Len(listing')].at + listing'[Len(listing')].length /\ listing' # << >>
    BY <1>0, <1>1, <1>3
  <2> QED  BY <2>3, <2>4 DEF SweepTiles
<1>7. SweptInOrder'
  <2> SUFFICES ASSUME NEW i \in Swept', NEW j \in Swept', i < j
               PROVE  listing'[i].at + listing'[i].length <= listing'[j].at
    BY DEF SweptInOrder
  <2>1. CASE j = n + 1
    <3>1. i \in Swept /\ i \in 1..n
      BY <1>3, <2>1
    <3> QED  BY <1>1, <1>3, <1>5, <2>1, <3>1
  <2>2. CASE j # n + 1
    <3>1. i \in Swept /\ j \in Swept /\ i \in 1..n /\ j \in 1..n
      BY <1>3, <2>2
    <3> QED  BY <1>3, <3>1 DEF Tiling, SweptInOrder
  <2> QED  BY <2>1, <2>2
<1>8. SweptBelowEnd'
  BY <1>0, <1>1, <1>3, <1>4 DEF Tiling, SweptBelowEnd
<1>9. Covered(position)'
  <2>0. ASSUME NEW b \in args.start..(position + Advance(position) - 1)
        PROVE  \E i \in Swept' : b \in listing'[i].at..(listing'[i].at + listing'[i].length - 1)
    <3>1. CASE b < position
      <4>1. PICK i \in Swept : b \in Bytes(i)
        BY <1>0, <1>1, <3>1 DEF Tiling, RangeCovered, Covered
      <4> QED  BY <1>3, <4>1 DEF Bytes
    <3>2. CASE b >= position
      <4>1. b \in listing'[n + 1].at..(listing'[n + 1].at + listing'[n + 1].length - 1)
        BY <1>1, <1>3, <3>2
      <4> QED  BY <1>3, <4>1
    <3> QED  BY <1>1, <3>1, <3>2
  <2>1. args'.start..(position' - 1) = args.start..(position + Advance(position) - 1)
    <3>1. args'.start = args.start
      BY <1>0
    <3>2. position' - 1 = position + Advance(position) - 1
      BY <1>0, <1>1
    <3> QED  BY <3>1, <3>2, Zenon
  <2>2. \A b \in args'.start..(position' - 1) : \E i \in Swept' :
          b \in listing'[i].at..(listing'[i].at + listing'[i].length - 1)
    BY <2>0, <2>1
  <2> QED  BY <2>2, Zenon DEF Covered, Bytes
<1> QED
  BY <1>0, <1>6, <1>7, <1>8, <1>9 DEF Tiling, RangeCovered

\* Lines that are not the sweep's, printed when the sweep is over.
LEMMA TilingBeside ==
  ASSUME TypeOK, Tiling, UNCHANGED input, NEW l \in Lines, listing' = Append(listing, l),
         l.kind \notin {"sweep", "placeholder"},
         pc' = pc, pc # "sweep"
  PROVE  Tiling'
<1>0. size' = size /\ extent' = extent /\ args' = args
  BY DEF input
<1> DEFINE n == Len(listing)
<1>1. /\ n \in Nat /\ \A i \in 1..n : listing'[i] = listing[i]
      /\ Swept' = Swept /\ Swept \subseteq 1..n
  BY SweptAfterPrinting
<1>2. end' = end
  BY <1>0 DEF end
<1>3. SweptInOrder' /\ SweptBelowEnd'
  BY <1>1, <1>2 DEF Tiling, SweptInOrder, SweptBelowEnd
<1>4. SweepTiles'
  <2>1. \A i \in Swept : i # 1 => i - 1 \in 1..n
    BY <1>1
  <2> QED  BY <1>0, <1>1, <2>1 DEF Tiling, SweepTiles
<1>5. \A i \in Swept : Bytes(i)' = Bytes(i)
  BY <1>1 DEF Bytes
<1>6. RangeCovered'
  BY <1>0, <1>1, <1>2, <1>5 DEF Tiling, RangeCovered, Covered
<1> QED
  BY <1>3, <1>4, <1>6 DEF Tiling

LEMMA TilingStep == TypeOK /\ Bookkeeping /\ Tiling /\ [Next]_vars => Tiling'
<1> SUFFICES ASSUME TypeOK, Bookkeeping, Tiling, [Next]_vars PROVE Tiling'
  OBVIOUS
<1>1. ASSUME NEW p \in 0..(size - 1), PrintsSeed(p)  PROVE Tiling'
  <2>1. Line("seed", p, extent[p]) \in Lines
    BY <1>1, InputIsTyped DEF Line, Lines
  <2>2. Line("seed", p, extent[p]).kind \notin {"sweep", "placeholder"}
    BY DEF Line
  <2> QED  BY <1>1, <2>1, <2>2, TilingBeside DEF PrintsSeed
<1>2. ASSUME NEW p \in 0..(size - 1), PrintsFrame(p)  PROVE Tiling'
  <2>1. Line("frame", p, FrameEnd - p) \in Lines
    BY <1>2, InputIsTyped DEF Line, Lines, PrintsFrame
  <2>2. Line("frame", p, FrameEnd - p).kind \notin {"sweep", "placeholder"}
    BY DEF Line
  <2> QED  BY <1>2, <2>1, <2>2, TilingBeside DEF PrintsFrame
<1> QED
  BY <1>1, <1>2, StepsPrint, TilingQuiet, TilingSweep

THEOREM TilingHolds == Spec => []Tiling
BY TilingInit, TilingStep, TypeCorrect, BookkeepingHolds, PTL DEF Spec

\* The sweep's lines lie end to end from --start, through placeholders,
\* resynchronisation and instructions past --end.
THEOREM SweepLinesTile == Spec => []SweepTiles
<1>1. Tiling => SweepTiles
  BY DEF Tiling
<1> QED
  BY <1>1, TilingHolds, PTL

\* Once the sweep is over every byte asked for is on exactly one of its lines.
THEOREM EveryByteListedOnce == Spec => []RangeListedOnce
<1>1. TypeOK /\ Bookkeeping /\ Tiling => RangeListedOnce
  <2> SUFFICES ASSUME TypeOK, Bookkeeping, Tiling PROVE RangeListedOnce
    OBVIOUS
  <2>0. \A i \in DOMAIN listing : listing[i].at \in Nat /\ listing[i].length \in Nat
    <3>1. listing \in Seq(Lines)
      BY DEF TypeOK
    <3>2. \A i \in DOMAIN listing : listing[i] \in Lines
      BY <3>1
    <3> QED  BY <3>2 DEF Lines
  <2>1. Swept \subseteq DOMAIN listing /\ DOMAIN listing \subseteq Nat
    BY DEF Swept, TypeOK
  <2>2. ASSUME NEW b \in Int, NEW i \in Swept, NEW j \in Swept, b \in Bytes(i), b \in Bytes(j)
        PROVE  i = j
    <3>1. ASSUME NEW k \in Swept, NEW m \in Swept, b \in Bytes(k), b \in Bytes(m), k < m PROVE FALSE
      BY <2>0, <2>1, <3>1 DEF Bytes, Tiling, SweptInOrder
    <3>2. i \in Nat /\ j \in Nat
      BY <2>1
    <3> QED  BY <2>2, <3>1, <3>2
  <2>3. ASSUME pc = "seeds", NEW b \in args.start..(end - 1)
        PROVE  Cardinality({i \in Swept : b \in Bytes(i)}) = 1
    <3>0. b \in Int
      BY InputIsTyped
    <3>1. PICK i \in Swept : b \in Bytes(i)
      BY <2>3 DEF Tiling, RangeCovered, Covered
    <3>2. {j \in Swept : b \in Bytes(j)} = {i}
      BY <2>2, <3>0, <3>1
    <3> QED  BY <3>2, FS_Singleton
  <2>4. \A i \in Swept : args.end # None => listing[i].at < args.end
    BY <2>0, <2>1, InputIsTyped DEF Tiling, SweptBelowEnd
  <2>5. \A i \in DOMAIN listing : listing[i].at >= 0 /\ listing[i].at + listing[i].length <= size
    BY <2>0 DEF Bookkeeping, LinesAreKnown
  <2> QED  BY <2>3, <2>4, <2>5 DEF RangeListedOnce
<1> QED
  BY <1>1, TypeCorrect, BookkeepingHolds, TilingHolds, PTL

-----------------------------------------------------------------------------
(* The exit status.                                                        *)

\* A seed the second loop has nothing left to do for has its line.
LEMMA SeedsHaveLines ==
  ASSUME TypeOK, Bookkeeping, NEW q \in args.seeds, q \notin Pending
  PROVE  Listed(q)
<1>1. CASE q \in emitted
  BY <1>1 DEF Bookkeeping, EmittedAreListed
<1>2. CASE q \in Visited
  BY <1>2 DEF Visited, Listed
<1> QED
  BY <1>1, <1>2 DEF Pending

LEMMA FramesHaveHeaders ==
  ASSUME TypeOK, Bookkeeping, pc = "frames", NEW q \in args.seeds, q \notin FramesLeft
  PROVE  Listed(q)
<1>1. PICK i \in DOMAIN listing : listing[i].at = q
  BY DEF FramesLeft
<1>2. listing[i].kind = "frame"
  BY DEF Bookkeeping, Modes, LinesAreKnown
<1> QED
  BY <1>1, <1>2 DEF Listed

LEMMA ExitStep ==
  TypeOK /\ Bookkeeping /\ Tiling /\ ExitStatusIsExplained /\ [Next]_vars => ExitStatusIsExplained'
<1> SUFFICES ASSUME TypeOK, Bookkeeping, Tiling, ExitStatusIsExplained, [Next]_vars
             PROVE  ExitStatusIsExplained'
  OBVIOUS
<1>0. exit' = NoExit => ExitStatusIsExplained'
  BY DEF ExitStatusIsExplained, NoExit
<1>1. pc # "done" => exit = NoExit
  BY DEF TypeOK
<1>2. CASE LoadInputs
  <2>1. listing' = << >>
    BY <1>2 DEF LoadInputs, Bookkeeping, Started
  <2>2. exit' = NoExit \/ (exit' = 2 /\ files' = "refused") \/ (exit' = 1 /\ files' = "malformed")
    BY <1>1, <1>2 DEF LoadInputs, Exit
  <2> QED
    BY <1>0, <2>1, <2>2 DEF ExitStatusIsExplained
<1>3. CASE SweepStep
  <2>1. CASE position < 0
    <3>1. exit' = 1 /\ listing' = listing /\ args' = args /\ pc = "sweep"
      BY <1>3, <2>1 DEF SweepStep, Exit, input
    <3>2. listing = << >>
      <4> SUFFICES ASSUME listing # << >> PROVE FALSE
        OBVIOUS
      <4>1. listing \in Seq(Lines)
        BY DEF TypeOK
      <4>2. listing[Len(listing)] \in Lines
        BY <4>1
      <4>3. position = listing[Len(listing)].at + listing[Len(listing)].length
        BY <3>1 DEF Tiling, SweepTiles
      <4> QED  BY <2>1, <4>2, <4>3 DEF Lines
    <3>3. args.start < 0
      BY <2>1, <3>1, <3>2 DEF Tiling, SweepTiles
    <3> QED  BY <3>1, <3>2, <3>3 DEF ExitStatusIsExplained
  <2>2. CASE ~(position < 0)
    BY <1>0, <1>1, <1>3, <2>2 DEF SweepStep
  <2> QED  BY <2>1, <2>2
<1>4. CASE SweepEnds
  BY <1>0, <1>1, <1>4 DEF SweepEnds
<1>5. CASE SeedStep
  <2> DEFINE p == Least(Pending)
  <2>1. p \in Pending /\ p \in Int /\ (\A q \in Pending : p <= q)
    BY <1>5, PendingIsVisited DEF SeedStep
  <2>2. CASE p \in 0..(size - 1) /\ extent[p] > 0
    BY <1>0, <1>1, <1>5, <2>2 DEF SeedStep
  <2>3. CASE ~(p \in 0..(size - 1) /\ extent[p] > 0)
    <3>1. exit' = 2 /\ listing' = listing /\ args' = args /\ size' = size /\ extent' = extent
          /\ pc = "seeds"
      BY <1>5, <2>3 DEF SeedStep, Exit, input
    <3>2. p \in args.seeds
      BY <2>1 DEF Pending
    <3>3. Refused(p)
      <4>1. ~args.frame
        BY <3>1 DEF Bookkeeping, Modes
      <4>2. p \in 0..(size - 1) => extent[p] \in Nat /\ ~(extent[p] > 0)
        BY <2>3, InputIsTyped
      <4> QED  BY <4>1, <4>2 DEF Refused
    <3>4. \A q \in args.seeds : q < p => Listed(q)
      <4> SUFFICES ASSUME NEW q \in args.seeds, q < p PROVE Listed(q)
        OBVIOUS
      <4>1. q \in Int
        BY InputIsTyped
      <4>2. q \notin Pending
        BY <2>1, <4>1
      <4> QED  BY <4>2, SeedsHaveLines
    <3> HIDE DEF p
    <3> QED  BY <3>1, <3>2, <3>3, <3>4 DEF ExitStatusIsExplained, Listed, Refused
  <2> QED  BY <2>2, <2>3
<1>6. CASE SeedsEnd
  <2>1. exit' = 0 /\ listing' = listing /\ args' = args /\ Pending = {}
    BY <1>6 DEF SeedsEnd, Exit, input
  <2>2. \A q \in args.seeds : Listed(q)
    BY <2>1, SeedsHaveLines
  <2> QED  BY <2>1, <2>2 DEF ExitStatusIsExplained, Listed
<1>7. CASE FrameStep
  <2> DEFINE p == Least(FramesLeft)
  <2>1. p \in FramesLeft /\ p \in Int /\ (\A q \in FramesLeft : p <= q)
    BY <1>7, FramesAreVisited DEF FrameStep
  <2>2. pc = "frames" /\ args.frame /\ p \in args.seeds
    BY <1>7, <2>1 DEF FrameStep, FramesLeft, Bookkeeping, Modes
  <2>3. CASE p \notin 0..(size - 1)
    <3>1. exit' = 2 /\ listing' = listing /\ args' = args /\ size' = size /\ extent' = extent
      BY <1>7, <2>3 DEF FrameStep, Exit, input
    <3>2. \A q \in args.seeds : q < p => Listed(q)
      <4> SUFFICES ASSUME NEW q \in args.seeds, q < p PROVE Listed(q)
        OBVIOUS
      <4>1. q \in Int
        BY InputIsTyped
      <4>2. q \notin FramesLeft
        BY <2>1, <4>1
      <4> QED  BY <2>2, <4>2, FramesHaveHeaders
    <3>3. Refused(p)
      BY <2>3 DEF Refused
    <3> HIDE DEF p
    <3> QED  BY <2>2, <3>1, <3>2, <3>3 DEF ExitStatusIsExplained, Listed, Refused
  <2>4. CASE p \in 0..(size - 1) /\ FrameEnd \in p..size
    BY <1>0, <1>1, <1>7, <2>4 DEF FrameStep
  <2>5. CASE p \in 0..(size - 1) /\ FrameEnd \notin p..size
    <3>1. exit' = 1 /\ args' = args /\ size' = size
      BY <1>7, <2>5 DEF FrameStep, Exit, input
    <3>2. FrameEnd' = FrameEnd
      BY <3>1 DEF FrameEnd
    <3> HIDE DEF p
    <3> QED  BY <2>2, <2>5, <3>1, <3>2 DEF ExitStatusIsExplained
  <2> QED  BY <2>3, <2>4, <2>5
<1>8. CASE FramesEnd
  <2>1. exit' = 0 /\ listing' = listing /\ args' = args /\ FramesLeft = {} /\ pc = "frames"
    BY <1>8 DEF FramesEnd, Exit, input
  <2>2. \A q \in args.seeds : Listed(q)
    BY <2>1, FramesHaveHeaders
  <2> QED  BY <2>1, <2>2 DEF ExitStatusIsExplained, Listed
<1>9. CASE UNCHANGED vars
  BY <1>9 DEF vars, input, ExitStatusIsExplained, Listed, Refused, FrameEnd
<1> QED
  BY <1>2, <1>3, <1>4, <1>5, <1>6, <1>7, <1>8, <1>9 DEF Next

\* The exit status says what was printed: 0 that every seed has its line, 2 that
\* the files or a seed were refused, 1 that something left main uncaught.
THEOREM ExitStatusExplained == Spec => []ExitStatusIsExplained
<1>1. Init => ExitStatusIsExplained
  BY DEF Init, ExitStatusIsExplained, NoExit
<1> QED
  BY <1>1, ExitStep, TypeCorrect, BookkeepingHolds, TilingHolds, PTL DEF Spec
=============================================================================
