CONSTANTS
  Schema <- EditSchema
  TupleUniverse <- EditTuples
  IndexOrder <- EditOrder
  Queries <- EditQueries
  MaxDepth = 3
  MaxID = 5
  MaxClock = 4

SPECIFICATION Spec

INVARIANT CheckAtOneInstant
