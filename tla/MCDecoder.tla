----------------------------- MODULE MCDecoder -----------------------------
(***************************************************************************)
(* Instances of Decoder over the real decode table.                        *)
(***************************************************************************)
EXTENDS Decoder, DecodeTable

\* All buffers of up to MaxLen bytes over an alphabet whose every byte plays
\* several parts: 0x2E is a prefix, 0x81 a group opcode with a word immediate
\* (and, as a ModRM byte, a disp16 mode), 0x9A a far pointer opcode (and a
\* disp16 mode), 0x46 takes nothing (and is a disp8 mode).
Alphabet == {46, 129, 154, 70}
MaxLen   == 6
ShortBuffers == UNION {[1..n -> Alphabet] : n \in 0..MaxLen}
=============================================================================
