------------------------------ MODULE ModRm16 ------------------------------
(***************************************************************************)
(* The 16-bit ModRM byte (i808x/modrm16.py).  MODRM16_TABLE is built by    *)
(* enumerating the 256 bytes through the mod/rm rule; the operators below  *)
(* are that rule.                                                          *)
(***************************************************************************)
EXTENDS Integers

Byte == 0..255

\* The values a displacement may have, disp8 and disp16 alike.
SignedDisplacement == -32768..32767

Mod(b) == b \div 64
Reg(b) == (b \div 8) % 8
Rm(b)  == b % 8

\* mod = 3 selects a register; everything else addresses memory.
IsAddressingMode(b) == Mod(b) # 3

\* mod = 0, rm = 6 is an absolute [disp16], not the [bp] of its position.
IsAbsolute(b) == Mod(b) = 0 /\ Rm(b) = 6

\* Bytes of displacement that follow the ModRM byte in the stream.
DisplacementWidth(b) ==
  CASE Mod(b) = 1 -> 1
    [] Mod(b) = 2 \/ IsAbsolute(b) -> 2
    [] OTHER -> 0

\* Mutant: the boundary value 0x80 stays positive.
Signed8PastMiddle(v) == IF v > 128 THEN v - 256 ELSE v

\* Two's complement readings of the values the reader returns unsigned.
Signed8(v)  == IF v >= 128   THEN v - 256   ELSE v
Signed16(v) == IF v >= 32768 THEN v - 65536 ELSE v

\* int.to_bytes(2, "little"), and its inverse read_u16.
LittleEndian(v) == << v % 256, v \div 256 >>
U16(lo, hi)     == lo + 256 * hi
=============================================================================
