------------------------ MODULE MCProcedureSelection ------------------------
(***************************************************************************)
(* Instances of ProcedureSelection: two-block units with up to three       *)
(* entries, and headers that are refused.                                  *)
(***************************************************************************)
EXTENDS ProcedureSelection

\* A unit whose header agrees with its tables; the code follows the symbols.
Unit(sizes, entries) ==
  LET entries_end == 64 + 8 * Len(entries)
      blocks_end  == entries_end + 8 * Len(sizes)
      code        == sizes[1] + (IF Len(sizes) > 1 THEN sizes[2] ELSE 0)
  IN [is_tpu9 |-> TRUE, size |-> ((blocks_end + 15) \div 16) * 16 + code,
      symbols |-> blocks_end, code_size |-> code, entries_at |-> 64,
      blocks_at |-> entries_end, blocks_end |-> blocks_end,
      blocks |-> sizes, entries |-> entries]

\* In the first block, in the second, at the end of a block, in a block there
\* is not, between two records of the table, and unassigned.
Records == {<< 0, 0 >>, << 0, 3 >>, << 8, 1 >>, << 8, 4 >>, << 0, 5 >>, << 16, 0 >>, << 4, 0 >>,
            Unassigned}

Tables == {<< >>} \union {<< a >> : a \in Records} \union (Records \X Records)
          \union {<< a, b, c >> : a, b, c \in {<< 0, 0 >>, << 0, 3 >>, << 8, 1 >>, << 8, 4 >>}}

Good == Unit(<< 5, 6 >>, << << 0, 0 >>, << 8, 1 >> >>)

Refused ==
  {[Good EXCEPT !.is_tpu9 = FALSE], [Good EXCEPT !.size = 63], [Good EXCEPT !.code_size = 0],
   [Good EXCEPT !.size = @ - 1], [Good EXCEPT !.symbols = 95], [Good EXCEPT !.entries_at = 60],
   [Good EXCEPT !.blocks_at = 84], [Good EXCEPT !.code_size = 10]}

UnitsChecked == {Unit(<< 5, 6 >>, t) : t \in Tables} \union {Unit(<< 5 >>, << << 0, 3 >> >>)}
                \union Refused

OffsetsChecked == {-1, 0, 6}

\* Short and long instructions, and a return with and without an operand.
InstructionsChecked ==
  {[length |-> 1, returns |-> FALSE], [length |-> 2, returns |-> FALSE],
   [length |-> 1, returns |-> TRUE], [length |-> 3, returns |-> TRUE]}
=============================================================================
