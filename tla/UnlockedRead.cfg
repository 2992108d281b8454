CONSTANTS
  n1 = n1  n2 = n2  n3 = n3
  Nodes <- MCNodes
  IdOf <- MCIdOf
  MaxId = 3
  K = 1
  Own = 0
  Threads = {t1, t2}
  NoOne = NoOne
  NoBucket = NoBucket
SPECIFICATION Spec
INVARIANT ReadsTheRightBucket
