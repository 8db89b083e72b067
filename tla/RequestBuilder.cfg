\* Every operation with every request its initializer builds, for one
\* endpoint, bucket and object and two declared lengths.
CONSTANTS
  Endpoint = Endpoint
  Buckets = {"b1", "b2"}
  Objects = {"o1", "o2", "o3"}
  Lengths <- MCLengths
  Keys = {"k1", "k2"}
  PValues = {"v1"}
  AnyTables = FALSE
  MaxParams = 0
  Null = Null
INIT Init
NEXT Next
INVARIANT TypeOK
INVARIANT WireMatchesSigned
INVARIANT BodyAsDeclared
INVARIANT QueryComplete
