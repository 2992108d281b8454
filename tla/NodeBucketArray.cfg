CONSTANTS
  a1 = a1  a2 = a2  b1 = b1  c1 = c1  d1 = d1  x1 = x1
  Nodes <- MCNodes
  IdOf <- MCIdOf
  MaxId = 7
  K = 3
  Low = 0
  High = 3
  Null = Null
SPECIFICATION ArraySpec
INVARIANTS
  ArraySound
PROPERTY ImplementsBucket
