SPECIFICATION FairSpec
CONSTANTS
  Buffers <- ShortBuffers
  DECODE <- DecodeRows
  PrefixFlags <- PrefixBytes
INVARIANTS
  TypeOK
  BytesAreConsumed
  PartsTileInstruction
  EofIsClassified
PROPERTIES
  DecodeReturns
  ImplementsStream
