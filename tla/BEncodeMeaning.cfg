\* Two plain keys and a numeric one; eight tokens hold a dictionary with a list, a
\* nested dictionary and a value after either.
CONSTANTS
  Keys = {"a", "q", "1"}
  MaxKey = 1
  MaxTokens = 8
SPECIFICATION MeaningSpec
INVARIANTS
  KrpcDecoded
  DecoderSound
CHECK_DEADLOCK FALSE
