\* The parser against the encoder, MAX_RECURSION_DEPTH 2 an int64_t of
\* -12 .. 11 and a size_t of 0 .. 63.
SPECIFICATION ParserSpec
CONSTANTS
  Inputs <- TestTexts
  Values <- TestValues
  Bytes <- TestBytes
  Depth <- TestDepth
  MaxDepth = 2
  MaxInt = 11
  MaxSize = 63
  Blanks <- TestBlanks
INVARIANTS
  ParserTypeOK
  EncodedIsRecovered
  TruncatedIsRefused
CHECK_DEADLOCK FALSE
