---------------------------- MODULE LinearSweep ----------------------------
(***************************************************************************)
(* The listing the command line prints (cli.py, main): a linear sweep of   *)
(* [start, end) of the image, then the seeds it did not emit, in address   *)
(* order, then the exit code -- or, with --frame, one header per seed.     *)
(*                                                                         *)
(* decode_at is the decoder as InstructionStream specifies it: the whole   *)
(* IMAGE is the input, so what happens at a position is its extent there,  *)
(* and an instruction may run past `end` though never past the image.      *)
(***************************************************************************)
EXTENDS Integers, Sequences, FiniteSets

CONSTANTS
  MaxImage,    \* bound on the size of the image
  MaxSeeds     \* bound on the number of distinct seeds

ASSUME BoundsAssumption == MaxImage \in Nat /\ MaxSeeds \in Nat

VARIABLES
  size,        \* len(image)
  extent,      \* length of the instruction at each position, 0 when cut off
  args,        \* what the command line says
  files,       \* what main made of the image and segment map files
  pc,          \* the loop main is in
  position,    \* the local of that name
  emitted,     \* the set of that name
  listing,     \* the lines printed, in the order they are printed
  exit         \* the exit status, NoExit while main runs

input == << size, extent, args >>
vars  == << input, files, pc, position, emitted, listing, exit >>

NoExit == -1

\* The positions a caller may name: inside the image, at its end, outside it.
Positions == -1..(size + 1)

\* None is the absence of --end.
None == -2

\* Any instruction fits the image it was decoded from.
Extents(n) == {f \in [0..(n - 1) -> 0..n] : \A p \in 0..(n - 1) : p + f[p] <= n}

Arguments ==
  [start : Positions, end : Positions \union {None},
   seeds : {S \in SUBSET Positions : Cardinality(S) <= MaxSeeds},
   frame : BOOLEAN]

\* Mutant: --end is forgotten.
endOfImage == size

end == IF args.end = None \/ args.end > size THEN size ELSE args.end

Init ==
  /\ size \in 0..MaxImage
  /\ extent \in Extents(size)
  /\ args \in Arguments
  /\ files = "unread"
  /\ pc = "load"
  /\ position = args.start
  /\ emitted = {}
  /\ listing = << >>
  /\ exit = NoExit

Line(kind, at, length) == [kind |-> kind, at |-> at, length |-> length]

\* Mutant: main falls off its end without a status.
ExitWithoutStatus(code) ==
  /\ pc' = "done"
  /\ exit' = NoExit

Exit(code) ==
  /\ pc' = "done"
  /\ exit' = code

-----------------------------------------------------------------------------
\* A missing image or the segment map of another one is refused; an MZ header
\* or a map that does not parse raises out of main.
LoadInputs ==
  /\ pc = "load"
  /\ \/ /\ files' = "usable"
        /\ pc' = IF args.frame THEN "frames" ELSE "sweep"
        /\ exit' = exit
     \/ files' = "refused" /\ Exit(2)
     \/ files' = "malformed" /\ Exit(1)
  /\ UNCHANGED << input, position, emitted, listing >>

\* Mutant: the sweep resynchronises after every line.
AdvanceByOne(p) == 1

\* A byte nothing decodes from is passed over alone.
Advance(p) == IF extent[p] > 0 THEN extent[p] ELSE 1

SweepLine(p) ==
  IF extent[p] > 0 THEN Line("sweep", p, extent[p]) ELSE Line("placeholder", p, 1)

\* Mutant: a byte nothing decodes from is not passed over (and not printed).
SweepWithoutResync ==
  /\ pc = "sweep"
  /\ position < end
  /\ IF position < 0
     THEN Exit(1) /\ UNCHANGED << position, emitted, listing >>
     ELSE /\ listing' = IF extent[position] > 0 THEN Append(listing, SweepLine(position)) ELSE listing
          /\ position' = position + extent[position]
          /\ emitted' = IF extent[position] > 0 THEN emitted \union {position} ELSE emitted
          /\ UNCHANGED << pc, exit >>
  /\ UNCHANGED << input, files >>

\* set_position refuses a position outside the image with a ValueError, which
\* nothing in main catches: Python's exit status for it is 1.
SweepStep ==
  /\ pc = "sweep"
  /\ position < end
  /\ IF position < 0
     THEN Exit(1) /\ UNCHANGED << position, emitted, listing >>
     ELSE /\ listing' = Append(listing, SweepLine(position))
          /\ position' = position + Advance(position)
          /\ emitted' = IF extent[position] > 0 THEN emitted \union {position} ELSE emitted
          /\ UNCHANGED << pc, exit >>
  /\ UNCHANGED << input, files >>

SweepEnds ==
  /\ pc = "sweep"
  /\ position >= end
  /\ pc' = "seeds"
  /\ UNCHANGED << input, files, position, emitted, listing, exit >>

\* Mutant: descending order.
Greatest(S) == CHOOSE x \in S : \A y \in S : x >= y

\* The seeds still to visit, ascending: sorted(seeded - emitted).
Least(S) == CHOOSE x \in S : \A y \in S : x <= y
Visited  == {listing[i].at : i \in {k \in DOMAIN listing : listing[k].kind = "seed"}}

\* Mutant: sorted(seeded).
PendingEmittedToo == args.seeds \ Visited

Pending  == (args.seeds \ emitted) \ Visited

SeedStep ==
  LET p == Least(Pending)
  IN /\ pc = "seeds"
     /\ Pending # {}
     /\ IF p \in 0..(size - 1) /\ extent[p] > 0
        THEN /\ listing' = Append(listing, Line("seed", p, extent[p]))
             /\ position' = p
             /\ UNCHANGED << pc, exit >>
        ELSE Exit(2) /\ position' = p /\ UNCHANGED listing
     /\ UNCHANGED << input, files, emitted >>

SeedsEnd ==
  /\ pc = "seeds"
  /\ Pending = {}
  /\ Exit(0)
  /\ UNCHANGED << input, files, position, emitted, listing >>

-----------------------------------------------------------------------------
\* --frame: analyse_frame refuses a range that is not inside the image, here
\* with --end as the caller gave it, and reports anything else as a header.
FrameEnd == IF args.end = None THEN size ELSE args.end
FramesLeft ==
  args.seeds \ {listing[i].at : i \in DOMAIN listing}

FrameStep ==
  LET p == Least(FramesLeft)
  IN /\ pc = "frames"
     /\ FramesLeft # {}
     /\ position' = p
     /\ CASE p \notin 0..(size - 1) -> Exit(2) /\ UNCHANGED listing
          [] p \in 0..(size - 1) /\ FrameEnd \in p..size ->
               /\ listing' = Append(listing, Line("frame", p, FrameEnd - p))
               /\ UNCHANGED << pc, exit >>
          [] p \in 0..(size - 1) /\ FrameEnd \notin p..size ->
               Exit(1) /\ UNCHANGED listing
     /\ UNCHANGED << input, files, emitted >>

FramesEnd ==
  /\ pc = "frames"
  /\ FramesLeft = {}
  /\ Exit(0)
  /\ UNCHANGED << input, files, position, emitted, listing >>

Next ==
  \/ LoadInputs
  \/ SweepStep
  \/ SweepEnds
  \/ SeedStep
  \/ SeedsEnd
  \/ FrameStep
  \/ FramesEnd

Spec == Init /\ [][Next]_vars

\* main is a sequential program: while it has a step to take it takes it.
FairSpec == Spec /\ WF_vars(Next)

-----------------------------------------------------------------------------
(* Properties.                                                             *)

Lines == [kind : {"sweep", "placeholder", "seed", "frame"}, at : Nat, length : Nat]

\* main's locals, and an exit status exactly when main has returned.
TypeOK ==
  /\ size \in 0..MaxImage
  /\ extent \in Extents(size)
  /\ args \in Arguments
  /\ files \in {"unread", "usable", "refused", "malformed"}
  /\ pc \in {"load", "sweep", "seeds", "frames", "done"}
  /\ position \in -1..(size + 1)
  /\ emitted \in SUBSET (0..(size - 1))
  /\ listing \in Seq(Lines)
  /\ exit \in {NoExit, 0, 1, 2}
  /\ exit = NoExit <=> pc # "done"

Swept == {i \in DOMAIN listing : listing[i].kind \in {"sweep", "placeholder"}}
Bytes(i) == listing[i].at..(listing[i].at + listing[i].length - 1)

\* The sweep's lines lie end to end: the first at --start, each where the one
\* before it stopped, and the next one goes where the last has stopped --
\* through placeholders, resynchronisation and instructions past --end.
SweepTiles ==
  /\ \A i \in Swept : listing[i].at =
       IF i = 1 THEN args.start ELSE listing[i - 1].at + listing[i - 1].length
  /\ pc = "sweep" => position =
       IF listing = << >> THEN args.start
       ELSE listing[Len(listing)].at + listing[Len(listing)].length

\* Once the sweep is over every byte asked for is on one of its lines and on
\* no other, and nothing is swept from --end on or outside the image.
RangeListedOnce ==
  /\ pc = "seeds" =>
       \A b \in args.start..(end - 1) : Cardinality({i \in Swept : b \in Bytes(i)}) = 1
  /\ \A i \in Swept : args.end # None => listing[i].at < args.end
  /\ \A i \in DOMAIN listing : listing[i].at >= 0 /\ listing[i].at + listing[i].length <= size

\* No position has two lines: a seed the sweep happened to start on is not
\* printed again, and one inside an instruction is a line of its own.
NoLineTwice ==
  \A i, j \in DOMAIN listing : listing[i].at = listing[j].at => i = j

Listed(p) == \E i \in DOMAIN listing : listing[i].at = p /\ listing[i].kind # "placeholder"
Refused(p) == p \notin 0..(size - 1) \/ (~args.frame /\ extent[p] = 0)

\* What the exit status says about what was printed.  0: every seed has its
\* line.  2: refused files and no output, or a seed that was refused, after
\* every smaller one had its line.  1, an exception nothing catches: malformed
\* files or a negative --start, before any line, or a --frame range outside the
\* image, after the headers of smaller seeds.
ExitStatusIsExplained ==
  /\ exit = 0 => \A p \in args.seeds : Listed(p)
  /\ exit = 2 =>
       \/ files = "refused" /\ listing = << >>
       \/ \E p \in args.seeds :
            Refused(p) /\ \A q \in args.seeds : q < p => Listed(q)
  /\ exit = 1 =>
       \/ (files = "malformed" \/ args.start < 0) /\ listing = << >>
       \/ args.frame /\ \E p \in args.seeds : FrameEnd \notin p..size

\* Every command line comes to an exit status.
Terminates == <>(exit # NoExit)

\* cli.py: seeds are emitted after the sweep, in address order, so the output
\* stays sorted and diffable.
ListingIsSorted ==
  \A i, j \in DOMAIN listing : i < j => listing[i].at < listing[j].at
=============================================================================
