\* The lengths of the code; strings that end a chunk exactly, and one longer than a
\* chunk; five calls fill the second chunk and cut it.
CONSTANTS
  Chunk = 1024
  Ascending <- MCAscending
  IdLen = 20
  PackedLen = 26
  FindCount = 8
  TidLens = {0, 2, 1018, 2500}
  Lens = {1, 1018, 1500}
  MaxCalls = 5
SPECIFICATION Spec
INVARIANTS
  EncoderSound
  MakeSucceeds
  SentWellFormed
  ReadBack
  PartialReadBack
CHECK_DEADLOCK FALSE
