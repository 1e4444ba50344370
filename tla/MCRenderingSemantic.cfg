SPECIFICATION RenderSpec
CONSTANTS
  Buffers <- PrefixBuffers
  DECODE <- DecodeRows
  PrefixFlags <- PrefixBytes
  Contexts <- LoadedAt
  StyleOptions <- Styles
  RegisterFiles <- Recorded16
INVARIANT SemanticTextKeepsSegments
