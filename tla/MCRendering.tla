---------------------------- MODULE MCRendering ----------------------------
(***************************************************************************)
(* Instances of Rendering over the real decode table.                      *)
(***************************************************************************)
EXTENDS Rendering, DecodeTable

\* Every opcode with a ModRM byte of every mod and every reg, the absolute
\* mode among them, cut off after every number of bytes the longest can take.
ModRmSamples == {6, 14, 86, 94, 167, 175, 247, 255}
Trailing     == << 254, 128, 255, 127 >>
OpcodeBuffers ==
  {SubSeq(<< op, m >> \o Trailing, 1, n) : op \in Byte, m \in ModRmSamples, n \in 1..6}

\* One and two prefixes before instructions of every kind that reads memory --
\* string operations, XLAT, offsets, ModRM forms with BP, BX and a register,
\* far and near indirect calls -- and before some that do not.
PrefixRuns == {<< p >> : p \in PrefixBytes}
              \union {<< p, q >> : p \in PrefixBytes, q \in PrefixBytes}
Prefixed ==
  {<< 164 >>, << 167 >>, << 170 >>, << 172 >>, << 175 >>, << 215 >>,
   << 161, 52, 18 >>, << 162, 254, 255 >>, << 139, 70, 128 >>, << 138, 7 >>,
   << 141, 14, 52, 18 >>, << 142, 196 >>, << 196, 127, 8 >>, << 255, 25 >>,
   << 255, 47 >>, << 255, 22, 0, 1 >>, << 131, 15, 128 >>, << 144 >>, << 235, 254 >>}
PrefixBuffers == {p \o i : p \in PrefixRuns, i \in Prefixed}

\* Immediates and far pointers the trailing bytes above do not reach.
MoreBuffers ==
  {<< 212, 10 >>, << 213, 16 >>, << 154, 65, 4, 87, 32 >>,
   << 234, 255, 255, 255, 255 >>, << 233, 252, 255 >>, << 117, 128 >>}

\* All 24 addresses a ModRM byte can name.
AddressBuffers == {<< 138, m, 254, 128 >> : m \in 0..7 \union 64..71 \union 128..135}

RenderedBuffers ==
  OpcodeBuffers \union PrefixBuffers \union MoreBuffers \union AddressBuffers

\* The start of memory, the paragraph below 0x10000 whose segment crosses a
\* 64K boundary, and the end of the first megabyte; with no code segment, the
\* right one, one the instruction is not in (below and above) and no paragraph.
LoadedAt ==
  [origin : {0, 65534}, code_segment : {NoSegment}]
  \union {[origin |-> 65536, code_segment |-> s] : s \in {3988, 4097, 0, 65536}}
  \union {[origin |-> 1114094, code_segment |-> s] : s \in {NoSegment, 65535}}

\* The default, the legacy prefixes, the iced names, and the mnemonic alone.
Style(l, d, o) == [legacy_prefixes |-> l, iced_mnemonics |-> d, mnemonic_only |-> o]
Styles == {Style(FALSE, FALSE, FALSE), Style(TRUE, FALSE, FALSE),
           Style(FALSE, TRUE, FALSE), Style(FALSE, TRUE, TRUE)}

\* Everything at the start; offsets, segments and the instruction pointer that
\* wrap; a word at the end of its segment for [BX+DI] and [SI+127].
RegistersOf(bx, bp, si, di, es, cs, ss, ds, ip) ==
  [r \in RegisterNames |->
     CASE r = "BX" -> bx [] r = "BP" -> bp [] r = "SI" -> si [] r = "DI" -> di
       [] r = "ES" -> es [] r = "CS" -> cs [] r = "SS" -> ss [] r = "DS" -> ds
       [] r = "IP" -> ip]
Recorded16 ==
  {RegistersOf(0, 0, 0, 0, 0, 0, 0, 0, 0),
   RegistersOf(65535, 40000, 30000, 0, 4096, 65535, 61440, 65520, 65534),
   RegistersOf(65537 - 32896, 2, 65408, 32639, 1, 2, 3, 4, 256)}
=============================================================================
