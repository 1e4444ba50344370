--------------------------- MODULE MCRoutineFrame ---------------------------
(***************************************************************************)
(* Instances of RoutineFrame.                                              *)
(***************************************************************************)
EXTENDS RoutineFrame

Nothing     == [kind |-> "none"]
R(r)        == [kind |-> "reg16", value |-> r]
Imm(v)      == [kind |-> "imm16", value |-> v]
Far(s, o)   == [kind |-> "far16", value |-> << s, o >>]
Rel(v)      == [kind |-> "rel16", value |-> v]
Address(b, v, w) == [kind |-> "addr16", base |-> b, value |-> v, size |-> w]

I(m, o1, o2, n) == [mnemonic |-> m, operand1 |-> o1, operand2 |-> o2, length |-> n]

\* What makes and undoes a frame, and calls.
Framing ==
  {I("MOV", R("BP"), R("SP"), 2), I("SUB", R("SP"), Imm(2), 3), I("SUB", R("SP"), Imm(0), 3),
   I("MOV", R("SP"), R("BP"), 2), I("POP", R("BP"), Nothing, 1),
   I("RET", Nothing, Nothing, 1), I("RET", Imm(2), Nothing, 3), I("RETF", Imm(4), Nothing, 3),
   I("CALL", Rel(3), Nothing, 3), I("CALLF", Far(0, 0), Nothing, 5)}

\* Reads that overlap, fall below the arguments, leave gaps and touch the saved
\* BP, over the shortest frame there is.
Accesses ==
  {I("MOV", R("BP"), R("SP"), 2), I("POP", R("BP"), Nothing, 1),
   I("RET", Nothing, Nothing, 1), I("RETF", Imm(2), Nothing, 3),
   I("LES", R("AX"), Address("bp", 4, 2), 3), I("MOV", R("AX"), Address("bp", 6, 2), 3),
   I("MOV", R("AL"), Address("bp", 4, 1), 3), I("MOV", R("AX"), Address("bp", 9, 2), 3),
   I("MOV", Address("bp", 0, 2), R("AX"), 3), I("MOV", R("AX"), Address("disp16", -2, 2), 4)}

\* Ranges inside an image of more bytes, of no more and of more than 64K, and
\* three that are refused.
FramingRanges ==
  {<< 0, 10, 11 >>, << 1, 8, 8 >>, << 65532, 65538, 65540 >>,
   << -1, 2, 7 >>, << 3, 2, 7 >>, << 0, 10, 7 >>}
AccessRanges  == {<< 0, 10, 14 >>}

AllRanges == FramingRanges \union AccessRanges
Holds == [r \in AllRanges |-> IF r \in AccessRanges THEN Accesses ELSE Framing]
=============================================================================
