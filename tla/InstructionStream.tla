------------------------- MODULE InstructionStream -------------------------
(***************************************************************************)
(* What the streaming decoder promises its callers, with every call one    *)
(* step: a cursor over a byte buffer whose decode_next either returns the  *)
(* bytes of one whole instruction and stands behind them, or reports Eof   *)
(* and moves nothing, or reports UnexpectedEof and stands at the end of    *)
(* the input.  Which of the three happens is a function of the buffer and  *)
(* the cursor alone: nothing an earlier call did, or failed to do, shows.  *)
(***************************************************************************)
EXTENDS Integers, Sequences

CONSTANTS
  Buffers,        \* the inputs a decoder may be created over
  Extent(_, _)    \* length of the instruction of a buffer at a start, 0 if cut off

VARIABLES
  buf,            \* the input
  position,       \* bytes consumed
  supported,      \* options.cpu is the one CPU that is ported
  outcome,        \* what the latest call returned or raised
  bytes           \* instruction_bytes of the instruction it returned

streamVars == << buf, position, supported, outcome, bytes >>

Init ==
  /\ buf \in Buffers
  /\ position = 0
  /\ supported = TRUE
  /\ outcome = "none"
  /\ bytes = << >>

Return(o, b) == outcome' = o /\ bytes' = b

\* set_position and rewind, inside the input and outside it.
Seek(p) ==
  /\ position' = p
  /\ Return("none", << >>)
  /\ UNCHANGED << buf, supported >>

SeekOutside ==
  /\ Return("ValueError", << >>)
  /\ UNCHANGED << buf, position, supported >>

SetOptions ==
  /\ supported' \in BOOLEAN
  /\ Return("none", << >>)
  /\ UNCHANGED << buf, position >>

Refuse ==
  /\ ~supported
  /\ Return("DecodeError", << >>)
  /\ UNCHANGED << buf, position, supported >>

\* A decode has been called and has not answered yet.
Enter ==
  /\ Return("none", << >>)
  /\ UNCHANGED << buf, position, supported >>

\* The iterator reports the same boundary as StopIteration.
AtEnd ==
  /\ supported
  /\ position = Len(buf)
  /\ outcome' \in {"Eof", "StopIteration"}
  /\ bytes' = << >>
  /\ UNCHANGED << buf, position, supported >>

CutOff ==
  /\ supported
  /\ position < Len(buf)
  /\ Extent(buf, position) = 0
  /\ position' = Len(buf)
  /\ Return("UnexpectedEof", << >>)
  /\ UNCHANGED << buf, supported >>

Decode ==
  LET n == Extent(buf, position)
  IN /\ supported
     /\ position < Len(buf)
     /\ n > 0
     /\ position' = position + n
     /\ Return("instruction", SubSeq(buf, position + 1, position + n))
     /\ UNCHANGED << buf, supported >>

Next ==
  \/ \E p \in 0..Len(buf) : Seek(p)
  \/ SeekOutside
  \/ SetOptions
  \/ Enter
  \/ Refuse
  \/ AtEnd
  \/ CutOff
  \/ Decode

Spec == Init /\ [][Next]_streamVars
=============================================================================
