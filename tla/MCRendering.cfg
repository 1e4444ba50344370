SPECIFICATION RenderSpec
CONSTANTS
  Buffers <- RenderedBuffers
  DECODE <- DecodeRows
  PrefixFlags <- PrefixBytes
  Contexts <- LoadedAt
  StyleOptions <- Styles
  RegisterFiles <- Recorded16
INVARIANTS
  RenderTypeOK
  PartsTileInstruction
  OperandsSpellTheirBytes
  OperandsHaveTheirModRm
  TargetsNameTheirByte
  ListingReadsBack
  NasmReadsBack
  PlaceholdersNeverPrint
  FaithfulRecordingsPass
  MovedWritesAreCaught
