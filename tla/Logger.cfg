CONSTANTS
  Threads = {t1, t2}
  None = None
  Configured <- MCConfigured
  MaxLines = 2
SPECIFICATION FairSpec
INVARIANTS
  LinesIntact
PROPERTIES
  WrittenOnce
  LogReturns
