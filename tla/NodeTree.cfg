CONSTANTS
  o1 = o1  o2 = o2  o3 = o3  s1 = s1
  u1 = u1  f1 = f1  f2 = f2  f3 = f3
  Nodes <- MCNodes
  IdOf <- MCIdOf
  MaxId = 15
  K = 2
  Own = 5
  FindCount = 2
SPECIFICATION Spec
INVARIANTS
  TypeOK
  Partition
  Capacity
  LookupComplete
  OwnPathShape
  ExactWhenBucketIsRich
  NoneLeftOut
PROPERTIES
  GoodNodesKept
  FarBucketsStable
  RefusedOnlyByFullBucket
  StoreSpec
CONSTRAINT FewBad
SYMMETRY Alike
